---------------------------- MODULE Spec2Model ----------------------------
(***************************************************************************)
(* The sequence-length-aware audio pipeline of chainercv2/models/jasper.py *)
(* (NemoMelSpecExtractor, MaskConv1d and the blocks built from it, the     *)
(* Jasper feature pipeline, CtcDecoder) as state machines.                 *)
(*                                                                         *)
(* Four specifications share the variables; each one drives one component  *)
(* and leaves the variables of the others at their idle values:            *)
(*   SpecCtc      CtcDecoder.__call__                                      *)
(*   SpecConv     a stack of MaskConvBlock1d layers on a small tensor      *)
(*   SpecExtract  NemoMelSpecExtractor.__call__                            *)
(*   SpecPipe     Jasper.__call__ on shapes and valid lengths              *)
(***************************************************************************)
EXTENDS Integers, Sequences, FiniteSets, TLC

VARIABLES
    \* ---- CtcDecoder
    blank_id,            \* self.blank_id
    labels_map,          \* self.labels_map: index -> character
    predictions,         \* the argument of __call__
    pred_i,              \* position of the outer loop (index of `prediction`)
    pred_j,              \* position of the inner loop (index of `p`)
    previous,            \* local `previous`
    decoded_prediction,  \* local `decoded_prediction`
    hypotheses,          \* local `hypotheses`
    ctc_pc,              \* "idle" | "loop" | "frame" | "done" | "error"
    \* ---- a stack of masked convolution layers
    layers,              \* the constructed layers, in call order
    x0, x0_len,          \* the tensor and the lengths the caller passed to the stack
    x0_held,             \* what the array the caller passed as x holds now
    x_in, len_in,        \* arguments (x, x_len) of the latest layer call
    x_masked,            \* local x of MaskConv1d.__call__ as handed to F.convolution_1d
    conv_x, conv_len,    \* the (x, x_len) the latest layer call returned
    conv_pos,            \* number of layers called so far
    conv_pc,             \* "idle" | "run" | "error"
    \* ---- NemoMelSpecExtractor
    hop_length,          \* self.hop_length
    dither,              \* self.dither, in units of 1.0e-05
    xs,                  \* the argument of __call__: the sample count of every waveform
    xs_held,             \* what every waveform array the caller passed holds now
    ext_i,               \* number of waveforms the loop of line 169 has processed
    ext_len,             \* local x_len
    ys,                  \* local ys: per item, its feature columns over the frames
    ext_x,               \* local x: the batched tensor (one channel)
    ext_pc,              \* "idle" | "items" | "done" | "error"
    \* ---- Jasper
    net,                 \* the constructed model (Jasper.__init__)
    pipe_arg,            \* the arguments (x, x_len) of Jasper.__call__
    pipe_x,              \* local x: the shape of the tensor and the stage that made it
    pipe_len,            \* local x_len: a length vector or the tuple of dense mode
    pipe_stage,          \* number of children of self.features called so far
    pipe_log,            \* (time extent, lengths) returned by every masked
                         \* convolution of the latest stage, in call order
    pipe_sum,            \* dense mode: what the latest unit's shortcut summed
    pipe_trace,          \* the stages called so far, in call order
    pipe_pc,             \* "idle" | "build" | "built" | "build_error" | "start" |
                         \* "features" | "output" | "return" | "done" | "error"
    \* ---- two forward passes on one model
    passes,              \* per pass: its arguments, its locals x and x_len, the
                         \* number of children of self.features called, its position
    \* ---- IGCV3 (igcv3.py): one forward pass, on shapes
    ig_net,              \* the model that get_mobilenetv2 returned
    ig_arg,              \* the shape of the argument x of IGCV3.__call__
    ig_x,                \* the shape of the local x
    ig_pos,              \* number of units called so far
    ig_pc                \* "idle" | "init_block" | "stages" | "final_block" |
                         \* "final_pool" | "flatten" | "fc" | "return" | "done" | "error"

ctcVars == <<blank_id, labels_map, predictions, pred_i, pred_j, previous,
             decoded_prediction, hypotheses, ctc_pc>>

convVars == <<layers, x0, x0_len, x0_held, x_in, len_in, x_masked, conv_x, conv_len,
              conv_pos, conv_pc>>

extVars == <<hop_length, dither, xs, xs_held, ext_i, ext_len, ys, ext_x, ext_pc>>

pipeVars == <<net, pipe_arg, pipe_x, pipe_len, pipe_stage, pipe_log, pipe_sum,
              pipe_trace, pipe_pc>>

pairVars == <<passes>>

igVars == <<ig_net, ig_arg, ig_x, ig_pos, ig_pc>>

vars == <<ctcVars, convVars, extVars, pipeVars, pairVars, igVars>>

(***************************************************************************)
(* Helpers                                                                 *)
(***************************************************************************)
SeqsUpTo(S, n) == UNION {[1..k -> S] : k \in 0..n}

Max(a, b) == IF a >= b THEN a ELSE b

(***************************************************************************)
(* CtcDecoder                                                              *)
(***************************************************************************)
\* Largest vocabulary length drawn for a decoder.
MaxVocab == 2
\* Longest prediction (number of frames) drawn.
MaxPredLen == 2
\* Longest prediction drawn alone, over the indices up to the blank.
MaxLongPredLen == 4
\* Batch sizes of `predictions` drawn.
PredBatchSizes == 0..2

Alphabet == <<"a", "b", "c", "d", "e", "f", "g", "h">>

\* A vocabulary of n single characters.
Vocabulary(n) == SubSeq(Alphabet, 1, n)

\* CtcDecoder.__init__: blank_id = len(vocabulary).
CtcBlankId(vocabulary) == Len(vocabulary)

\* The batch of the documented examples (vocabulary of 5 characters, blank = 5).
ExamplePredictions == << <<1, 1, 2, 5, 2, 3>>, <<5, 5, 5>>, <<1, 5, 1>>, <<4, 4, 4, 4>> >>

\* labels_map keyed from 1 instead of from 0.
CtcLabelsMapFromOne(vocabulary) == [i \in 1..Len(vocabulary) |-> vocabulary[i]]

\* CtcDecoder.__init__: labels_map = {i: vocabulary[i]} for i in range(len(vocabulary)).
CtcLabelsMap(vocabulary) == [i \in 0..(Len(vocabulary) - 1) |-> vocabulary[i + 1]]

\* The test of line 248 without the exclusion of the blank.
CtcEmitsKeepBlank(p, prev, blank) == p /= prev \/ prev = blank

\* The test of line 248 without its comparison against `previous`.
CtcEmitsNoCollapse(p, prev, blank) == p /= blank

\* The test of line 248: whether frame index p is appended.
CtcEmits(p, prev, blank) == (p /= prev \/ prev = blank) /\ p /= blank

CtcIdle ==
    /\ blank_id = 0
    /\ labels_map = <<>>
    /\ predictions = <<>>
    /\ pred_i = 0
    /\ pred_j = 0
    /\ previous = 0
    /\ decoded_prediction = <<>>
    /\ hypotheses = <<>>
    /\ ctc_pc = "idle"

\* A decoder built from a vocabulary, and the argument of one call. Frame
\* indices range over 0..blank_id+1, one past the blank included.
CtcInit ==
    /\ \/ \E n \in 1..MaxVocab :
            /\ blank_id = CtcBlankId(Vocabulary(n))
            /\ labels_map = CtcLabelsMap(Vocabulary(n))
            /\ \E b \in PredBatchSizes :
                 predictions \in [1..b -> SeqsUpTo(0..(n + 1), MaxPredLen)]
       \/ /\ blank_id = CtcBlankId(Vocabulary(5))
          /\ labels_map = CtcLabelsMap(Vocabulary(5))
          /\ predictions = ExamplePredictions
       \/ /\ blank_id = CtcBlankId(Vocabulary(MaxVocab))
          /\ labels_map = CtcLabelsMap(Vocabulary(MaxVocab))
          /\ predictions \in [1..1 -> SeqsUpTo(0..MaxVocab, MaxLongPredLen)]
    /\ pred_i = 0
    /\ pred_j = 0
    /\ previous = 0
    /\ decoded_prediction = <<>>
    /\ hypotheses = <<>>
    /\ ctc_pc = "loop"

\* Lines 244-246: the outer loop takes the next prediction.
CtcBegin ==
    /\ ctc_pc = "loop"
    /\ pred_i < Len(predictions)
    /\ pred_i' = pred_i + 1
    /\ pred_j' = 1
    /\ decoded_prediction' = <<>>
    /\ previous' = blank_id
    /\ ctc_pc' = "frame"
    /\ UNCHANGED <<blank_id, labels_map, predictions, hypotheses>>
    /\ UNCHANGED <<convVars, extVars, pipeVars, pairVars, igVars>>

\* Lines 247-250: one frame of the inner loop.
CtcFrame ==
    /\ ctc_pc = "frame"
    /\ pred_j <= Len(predictions[pred_i])
    /\ LET p == predictions[pred_i][pred_j] IN
         /\ decoded_prediction' = IF CtcEmits(p, previous, blank_id)
                                  THEN Append(decoded_prediction, p)
                                  ELSE decoded_prediction
         /\ previous' = p
    /\ pred_j' = pred_j + 1
    /\ UNCHANGED <<blank_id, labels_map, predictions, pred_i, hypotheses, ctc_pc>>
    /\ UNCHANGED <<convVars, extVars, pipeVars, pairVars, igVars>>

\* Lines 251-252: the decoded indices are mapped to characters and joined;
\* an index that is no key of labels_map raises KeyError.
CtcJoin ==
    /\ ctc_pc = "frame"
    /\ pred_j > Len(predictions[pred_i])
    /\ IF \A k \in 1..Len(decoded_prediction) : decoded_prediction[k] \in DOMAIN labels_map
       THEN /\ hypotheses' = Append(hypotheses,
                   [k \in 1..Len(decoded_prediction) |-> labels_map[decoded_prediction[k]]])
            /\ ctc_pc' = "loop"
       ELSE /\ hypotheses' = hypotheses
            /\ ctc_pc' = "error"
    /\ UNCHANGED <<blank_id, labels_map, predictions, pred_i, pred_j, previous,
                   decoded_prediction>>
    /\ UNCHANGED <<convVars, extVars, pipeVars, pairVars, igVars>>

\* Line 253: return hypotheses.
CtcReturn ==
    /\ ctc_pc = "loop"
    /\ pred_i = Len(predictions)
    /\ ctc_pc' = "done"
    /\ UNCHANGED <<blank_id, labels_map, predictions, pred_i, pred_j, previous,
                   decoded_prediction, hypotheses>>
    /\ UNCHANGED <<convVars, extVars, pipeVars, pairVars, igVars>>

CtcNext == CtcBegin \/ CtcFrame \/ CtcJoin \/ CtcReturn

(***************************************************************************)
(* MaskConv1d, MaskConvBlock1d and stacks of them.                         *)
(* A tensor is a sequence of items, an item a sequence of values over the  *)
(* time axis (one channel); time position t of the code (from 0) is index  *)
(* t + 1 here.                                                             *)
(***************************************************************************)
\* Bounds of the layer configurations drawn for a single MaskConv1d.
MaxKsize == 3
MaxStride == 2
MaxPad == 1
MaxDilate == 2
\* Largest time extent of the tensors drawn for a single MaskConv1d.
MaxTime == 4
\* Largest time extent of the valued tensors drawn for a stack of blocks.
MaxValTime == 2
\* Values of the tensor entries drawn.
Values == {0, 1}
\* Kernel sizes of the blocks of a stack (odd, as all kernel sizes of get_jasper).
StackKsizes == {3}
\* Numbers of body blocks of the units of a stack.
UnitRepeats == {1, 2}
\* Numbers of blocks in a stack.
StackDepths == 1..2

TimeSize(x) == IF Len(x) = 0 THEN 0 ELSE Len(x[1])

Tensors(b, t, V) == [1..b -> [1..t -> V]]

\* Lines 341-343 with the mask left out: x is convolved as it came.
ApplyMaskNone(x, x_len) == x

\* Lines 341-342: the comparison broadcasts the lengths, expanded to
\* (size, 1, 1), against the shape of x: a vector of size 1 serves every item.
LenAt(x_len, i) == IF Len(x_len) = 1 THEN x_len[1] ELSE x_len[i]

\* Lines 341-343: the comparison and the in-place product raise unless the
\* size of the length vector is the batch size or 1.
MaskBroadcasts(x, x_len) == Len(x_len) = Len(x) \/ Len(x_len) = 1

\* Line 343 adding the mask to x instead of multiplying by it.
ApplyMaskAdd(x, x_len) ==
    [i \in DOMAIN x |->
        [t \in DOMAIN x[i] |-> x[i][t] + (IF t - 1 < LenAt(x_len, i) THEN 1 ELSE 0)]]

\* Lines 341-343: the mask over the full time axis of x, compared against the
\* incoming x_len, and x *= mask.
ApplyMask(x, x_len) ==
    [i \in DOMAIN x |->
        [t \in DOMAIN x[i] |-> IF t - 1 < LenAt(x_len, i) THEN x[i][t] ELSE 0]]

\* Line 344: the new valid length of one item.
NewLenCeil(l, c) ==
    -((-(l + 2 * c.pad - c.dilate * (c.ksize - 1) - 1)) \div c.stride) + 1

NewLenNoDilate(l, c) ==
    (l + 2 * c.pad - (c.ksize - 1) - 1) \div c.stride + 1

\* Line 344 without the division by the stride.
NewLenStrideOne(l, c) == l + 2 * c.pad - c.dilate * (c.ksize - 1)

NewLen(l, c) ==
    (l + 2 * c.pad - c.dilate * (c.ksize - 1) - 1) \div c.stride + 1

\* Weight j (from 1) of every kernel: fixed, non-zero layer parameters.
ConvWeight(j) == j

\* The zero-padded input of the convolution at position q (from 0, pad excluded).
Padded(row, q) == IF q >= 0 /\ q < Len(row) THEN row[q + 1] ELSE 0

\* The output positions (from 0) of a convolution over a time axis of t
\* positions: the placements of the dilated kernel inside the padded axis.
OutPositions(t, c) ==
    {o \in 0..(t + 2 * c.pad) :
        o * c.stride + c.dilate * (c.ksize - 1) <= t + 2 * c.pad - 1}

ConvExtent(t, c) == Cardinality(OutPositions(t, c))

RECURSIVE WindowSum(_, _, _, _)
WindowSum(row, o, c, j) ==
    IF j = 0 THEN 0
    ELSE WindowSum(row, o, c, j - 1)
         + ConvWeight(j) * Padded(row, o * c.stride + (j - 1) * c.dilate - c.pad)

\* Lines 345-352: F.convolution_1d with the layer's stride, pad and dilate.
\* It raises when the kernel has no placement on the padded axis.
Convolution1d(x, c) ==
    LET n == ConvExtent(TimeSize(x), c) IN
    [ok |-> n > 0,
     x  |-> [i \in DOMAIN x |-> [o \in 1..n |-> WindowSum(x[i], o - 1, c, c.ksize)]]]

\* MaskConv1d.__call__ with the mask applied after the convolution, at the
\* output resolution, instead of before it.
MaskConv1dCallMaskAfter(x, x_len, c) ==
    LET nl == IF c.use_mask THEN [i \in DOMAIN x_len |-> NewLen(x_len[i], c)] ELSE x_len
        y  == Convolution1d(x, c)
    IN [ok |-> y.ok, x |-> IF c.use_mask THEN ApplyMask(y.x, nl) ELSE y.x,
        x_len |-> nl, masked |-> x]

\* MaskConv1d.__call__ raising when a computed length is not positive or the
\* length vector is not of the batch size.
MaskConv1dCallChecked(x, x_len, c) ==
    LET xm == IF c.use_mask THEN ApplyMask(x, x_len) ELSE x
        nl == IF c.use_mask THEN [i \in DOMAIN x_len |-> NewLen(x_len[i], c)] ELSE x_len
        y  == Convolution1d(xm, c)
    IN [ok |-> y.ok /\ (c.use_mask => (Len(x_len) = Len(x)
                                        /\ \A i \in DOMAIN nl : nl[i] > 0)),
        x |-> y.x, x_len |-> nl, masked |-> xm]

\* MaskConv1d.__call__ (lines 339-353).
MaskConv1dCall(x, x_len, c) ==
    LET xm == IF c.use_mask THEN ApplyMask(x, x_len) ELSE x
        nl == IF c.use_mask THEN [i \in DOMAIN x_len |-> NewLen(x_len[i], c)] ELSE x_len
        y  == Convolution1d(xm, c)
    IN [ok |-> y.ok /\ (c.use_mask => MaskBroadcasts(x, x_len)),
        x |-> y.x, x_len |-> nl, masked |-> xm]

\* Inference-mode batch normalisation: a fixed affine map of every entry.
BatchNorm(x) == [i \in DOMAIN x |-> [t \in DOMAIN x[i] |-> x[i][t] + 1]]

Relu(x) == [i \in DOMAIN x |-> [t \in DOMAIN x[i] |-> Max(x[i][t], 0)]]

\* MaskConvBlock1d.__call__ (lines 459-467); dropout is the identity at inference.
MaskConvBlock1dCall(x, x_len, c) ==
    LET r  == MaskConv1dCall(x, x_len, c)
        x1 == IF c.use_bn THEN BatchNorm(r.x) ELSE r.x
        x2 == IF c.activate THEN Relu(x1) ELSE x1
    IN [ok |-> r.ok, x |-> x2, x_len |-> r.x_len, masked |-> r.masked]

AddTensors(a, b) == [i \in DOMAIN a |-> [t \in DOMAIN a[i] |-> a[i][t] + b[i][t]]]

\* The blocks of a unit: the shortcut projection (lines 679-684) and body
\* block i of `repeat` (lines 688-699), the last one without activation.
UnitIdentityBlock ==
    [kind |-> "block", ksize |-> 1, stride |-> 1, pad |-> 0, dilate |-> 1,
     use_mask |-> TRUE, use_bn |-> TRUE, activate |-> FALSE]

UnitBodyBlock(u, i) ==
    [kind |-> "block", ksize |-> u.ksize, stride |-> 1, pad |-> u.ksize \div 2,
     dilate |-> 1, use_mask |-> TRUE, use_bn |-> TRUE, activate |-> (i < u.repeat)]

\* self.body(x, x_len): the body blocks called in order.
RECURSIVE UnitBody(_, _, _, _)
UnitBody(x, x_len, u, n) ==
    IF n = 0 THEN [ok |-> TRUE, x |-> x, x_len |-> x_len, masked |-> x]
    ELSE LET r == UnitBody(x, x_len, u, n - 1) IN
         IF r.ok THEN MaskConvBlock1dCall(r.x, r.x_len, UnitBodyBlock(u, n)) ELSE r

\* JasperUnit.__call__ without dense residual (lines 716-728).
JasperUnitCall(x, x_len, u) ==
    LET identity == MaskConvBlock1dCall(x, x_len, UnitIdentityBlock)
        body     == UnitBody(x, x_len, u, u.repeat)
    IN IF identity.ok /\ body.ok
       THEN [ok |-> TRUE, x |-> Relu(AddTensors(body.x, identity.x)),
             x_len |-> body.x_len, masked |-> identity.masked]
       ELSE [ok |-> FALSE, x |-> x, x_len |-> x_len, masked |-> identity.masked]

\* One element of a stack: a block or a unit.
ElementCall(x, x_len, e) ==
    IF e.kind = "unit" THEN JasperUnitCall(x, x_len, e)
    ELSE MaskConvBlock1dCall(x, x_len, e)

\* The first n elements of a stack called in order, each on what the previous
\* one returned (JasperFinalBlock.__call__, lines 787-788).
RECURSIVE RunStack(_, _, _, _)
RunStack(ls, n, x, x_len) ==
    IF n = 0 THEN [ok |-> TRUE, x |-> x, x_len |-> x_len]
    ELSE LET r == RunStack(ls, n - 1, x, x_len) IN
         IF r.ok
         THEN LET q == ElementCall(r.x, r.x_len, ls[n]) IN
              [ok |-> q.ok, x |-> q.x, x_len |-> q.x_len]
         ELSE r

\* A bare MaskConv1d (lines 313-337) of any configuration within the bounds.
BareConvs ==
    [kind : {"block"}, ksize : 1..MaxKsize, stride : 1..MaxStride, pad : 0..MaxPad,
     dilate : 1..MaxDilate, use_mask : BOOLEAN, use_bn : {FALSE}, activate : {FALSE}]

\* The block shapes the repository builds, at small kernel sizes:
\* the init block (lines 855-862), a body block (lines 691-699), a shortcut
\* projection (kernel 1, no activation, lines 679-684), the first block of
\* the final block (lines 766-774), and a unit without dense residual.
StackElements ==
    {[kind |-> "block", ksize |-> k, stride |-> 2, pad |-> k \div 2, dilate |-> 1,
      use_mask |-> TRUE, use_bn |-> TRUE, activate |-> TRUE] : k \in StackKsizes}
    \cup
    {[kind |-> "block", ksize |-> k, stride |-> 1, pad |-> k \div 2, dilate |-> 1,
      use_mask |-> TRUE, use_bn |-> TRUE, activate |-> TRUE] : k \in StackKsizes}
    \cup
    {UnitIdentityBlock}
    \cup
    {[kind |-> "block", ksize |-> k, stride |-> 1, pad |-> (2 * k) \div 2 - 1,
      dilate |-> 2, use_mask |-> TRUE, use_bn |-> TRUE, activate |-> TRUE]
        : k \in StackKsizes}
    \cup
    {[kind |-> "unit", ksize |-> k, repeat |-> r] : k \in StackKsizes, r \in UnitRepeats}

ConvIdle ==
    /\ layers = <<>>
    /\ x0 = <<>> /\ x0_len = <<>>
    /\ x0_held = <<>>
    /\ x_in = <<>> /\ len_in = <<>>
    /\ x_masked = <<>>
    /\ conv_x = <<>> /\ conv_len = <<>>
    /\ conv_pos = 0
    /\ conv_pc = "idle"

\* Either one bare MaskConv1d of any configuration on an all-zero tensor, or a
\* stack of blocks on a batch of two items of any values; every valid length is
\* at most the time extent.
ConvInit ==
    /\ \/ /\ layers \in [1..1 -> BareConvs]
          /\ \E t \in 1..MaxTime :
               /\ x0 = [i \in 1..2 |-> [k \in 1..t |-> 0]]
               /\ x0_len \in [1..2 -> 0..t]
       \/ /\ \E n \in StackDepths : layers \in [1..n -> StackElements]
          /\ \E t \in {MaxValTime} :
               /\ x0 \in Tensors(2, t, Values)
               /\ x0_len \in [1..2 -> 0..t]
    /\ x0_held = x0
    /\ x_in = <<>> /\ len_in = <<>>
    /\ x_masked = <<>>
    /\ conv_x = x0 /\ conv_len = x0_len
    /\ conv_pos = 0
    /\ conv_pc = "run"

\* Sizes of the length vectors passed beside a batch of two items.
LenVectorSizes == 1..3

\* One bare MaskConv1d of any configuration on an all-zero batch of two
\* items, with a length vector of any size.
ConvSizesInit ==
    /\ layers \in [1..1 -> BareConvs]
    /\ \E t \in 1..MaxTime :
         /\ x0 = [i \in 1..2 |-> [k \in 1..t |-> 0]]
         /\ \E n \in LenVectorSizes : x0_len \in [1..n -> 0..t]
    /\ x0_held = x0
    /\ x_in = <<>> /\ len_in = <<>>
    /\ x_masked = <<>>
    /\ conv_x = x0 /\ conv_len = x0_len
    /\ conv_pos = 0
    /\ conv_pc = "run"

\* Line 343, x *= mask, on a numpy array: the product is stored in the array
\* the caller passed, unless the comparison of lines 341-342 raised before.
\* A unit masks its input in its shortcut projection (lines 716, 459-460).
HeldAfterCall(x, x_len, e) ==
    IF (e.kind = "unit" \/ e.use_mask) /\ MaskBroadcasts(x, x_len)
    THEN ApplyMask(x, x_len) ELSE x

\* The next layer of the stack is called on what the previous one returned;
\* the first one is called on the caller's array.
LayerCall ==
    /\ conv_pc = "run"
    /\ conv_pos < Len(layers)
    /\ LET r == ElementCall(conv_x, conv_len, layers[conv_pos + 1]) IN
         /\ x_in' = conv_x
         /\ len_in' = conv_len
         /\ x_masked' = r.masked
         /\ x0_held' = IF conv_pos = 0
                       THEN HeldAfterCall(conv_x, conv_len, layers[conv_pos + 1])
                       ELSE x0_held
         /\ conv_pos' = conv_pos + 1
         /\ IF r.ok
            THEN /\ conv_x' = r.x
                 /\ conv_len' = r.x_len
                 /\ conv_pc' = "run"
            ELSE /\ conv_x' = conv_x
                 /\ conv_len' = conv_len
                 /\ conv_pc' = "error"
    /\ UNCHANGED <<layers, x0, x0_len>>
    /\ UNCHANGED <<ctcVars, extVars, pipeVars, pairVars, igVars>>

ConvNext == LayerCall

(***************************************************************************)
(* NemoMelSpecExtractor.                                                   *)
(* A waveform is its number of samples; a feature matrix is the sequence   *)
(* of its columns over the frames, every column a non-zero marker (1).     *)
(***************************************************************************)
\* Default sample rate (Hz) and window stride (ms) of the constructor.
DefaultSampleRate == 16000
DefaultWindowStrideMs == 10
\* self.pad_align.
PadAlign == 16
\* Hop lengths from 1 to MaxHop are drawn beside the default one.
MaxHop == 2
\* Waveforms of up to MaxFrames hops (plus a remainder) are drawn.
MaxFrames == 17
\* Batch sizes of the extractor calls drawn.
ExtBatchSizes == 0..2
\* Values of dither drawn, in units of 1.0e-05 (the default is 1).
DitherAmounts == {0, 1}

\* Line 120: hop_length = int(window_stride_sec * sample_rate).
HopLength(sample_rate, stride_ms) == (stride_ms * sample_rate) \div 1000

\* The number of STFT frames of n samples instead of the valid frame count.
ValidFramesAsStft(n, hop) == 1 + n \div hop

\* Line 170: x_len[i] = ceil(len(xi) / hop_length).
ValidFrames(n, hop) == (n + hop - 1) \div hop

\* The number of frames of an STFT that is not centred on its frames.
StftFramesNotCentred(n, hop) == n \div hop

\* Lines 126-132, 177: the number of frames of the centred STFT of n samples.
StftFrames(n, hop) == 1 + n \div hop

\* Lines 177-189: the feature matrix of an item, one column per STFT frame.
Features(n, hop) == [t \in 1..StftFrames(n, hop) |-> 1]

\* Line 183 without the check.
FrameAssertionOff(yi) == TRUE

\* Line 183: assert (yi.shape[1] != 1).
FrameAssertion(yi) == Len(yi) /= 1

RECURSIVE MaxOf(_)
MaxOf(S) == IF S = {} THEN 0
            ELSE LET v == CHOOSE e \in S : TRUE IN Max(v, MaxOf(S \ {v}))

\* Lines 200-202 with the padding added even when the extent is aligned.
PaddedExtentAlways(t) == t + (PadAlign - (t % PadAlign))

\* Lines 200-202: the time extent after padding to a multiple of pad_align.
PaddedExtent(t) ==
    IF (t % PadAlign) /= 0 THEN t + (PadAlign - (t % PadAlign)) ELSE t

\* Lines 195-198: the row of an item in the batched tensor of t positions:
\* zeros, with the first x_len_i columns of its feature matrix copied in.
BatchRow(y, l, t) == [k \in 1..t |-> IF k <= l /\ k <= Len(y) THEN y[k] ELSE 0]

\* Lines 193-202: the batched, padded tensor.
BatchTensor(yy, ll) ==
    LET x_len_max == MaxOf({Len(yy[j]) : j \in DOMAIN yy}) IN
    [i \in DOMAIN yy |-> BatchRow(yy[i], ll[i], PaddedExtent(x_len_max))]

\* The sample counts drawn for hop length h: around every multiple of h.
SampleCounts(h) ==
    {n \in 0..(MaxFrames * h + 1) : (n % h) \in {0, 1, h - 1}}

ExtIdle ==
    /\ hop_length = 0
    /\ dither = 0
    /\ xs = <<>>
    /\ xs_held = <<>>
    /\ ext_i = 0
    /\ ext_len = <<>>
    /\ ys = <<>>
    /\ ext_x = <<>>
    /\ ext_pc = "idle"

\* An extractor built for some sample rate, and the waveforms of one call.
ExtInit ==
    /\ \/ /\ \E h \in 1..MaxHop : hop_length = HopLength(100 * h, DefaultWindowStrideMs)
          /\ \E b \in ExtBatchSizes : xs \in [1..b -> SampleCounts(hop_length)]
       \/ /\ hop_length = HopLength(DefaultSampleRate, DefaultWindowStrideMs)
          /\ \E b \in 1..2 : xs \in [1..b -> {159, 160, 2560, 16000}]
    /\ dither \in DitherAmounts
    /\ xs_held = [i \in 1..Len(xs) |-> "samples"]
    /\ ext_i = 0
    /\ ext_len = [i \in 1..Len(xs) |-> 0]
    /\ ys = <<>>
    /\ ext_x = <<>>
    /\ ext_pc = "items"

\* Lines 172-173: xi += self.dither * np.random.randn(*xi.shape) adds the
\* noise into the caller's array (xi is that array, or a row view of it).
Dithered(held, i, n, d) ==
    IF d > 0 /\ n > 0 THEN [held EXCEPT ![i] = "samples+noise"] ELSE held

\* Lines 169-191: one waveform. The STFT raises on an empty waveform (its
\* reflect padding has nothing to reflect); line 183 asserts that the
\* spectrogram does not have exactly one frame.
ExtItem ==
    /\ ext_pc = "items"
    /\ ext_i < Len(xs)
    /\ LET i == ext_i + 1
           n == xs[i]
       IN /\ ext_len' = [ext_len EXCEPT ![i] = ValidFrames(n, hop_length)]
          /\ xs_held' = Dithered(xs_held, i, n, dither)
          /\ ext_i' = i
          /\ IF n = 0 \/ ~FrameAssertion(Features(n, hop_length))
             THEN /\ ys' = ys
                  /\ ext_pc' = "error"
             ELSE /\ ys' = Append(ys, Features(n, hop_length))
                  /\ ext_pc' = "items"
    /\ UNCHANGED <<hop_length, dither, xs, ext_x>>
    /\ UNCHANGED <<ctcVars, convVars, pipeVars, pairVars, igVars>>

\* Lines 193-204: batching and padding; ys[0] raises on an empty batch.
ExtBatch ==
    /\ ext_pc = "items"
    /\ ext_i = Len(xs)
    /\ IF Len(ys) = 0
       THEN /\ ext_x' = ext_x
            /\ ext_pc' = "error"
       ELSE /\ ext_x' = BatchTensor(ys, ext_len)
            /\ ext_pc' = "done"
    /\ UNCHANGED <<hop_length, dither, xs, xs_held, ext_i, ext_len, ys>>
    /\ UNCHANGED <<ctcVars, convVars, pipeVars, pairVars, igVars>>

ExtNext == ExtItem \/ ExtBatch

(***************************************************************************)
(* Jasper: the model built by get_jasper and its forward pass, on tensor   *)
(* shapes <<batch, channels, time>> and valid lengths.                     *)
(***************************************************************************)
\* Defaults of Jasper.__init__.
DefaultInChannels == 64
DefaultClasses == 29
\* Largest time extent of the feature tensors a caller passes (from_audio false).
MaxPipeTime == 3
\* Frame counts around which the waveforms of a forward pass are drawn.
PipeFrameCounts == {1, 15, 16, 17}
\* Batch sizes of the forward passes drawn.
PipeBatchSizes == 1..2

\* The versions of jasper5x3, jasper10x4, jasper10x5 (lines 1004, 1019, 1034),
\* as (blocks, repeat) of line 947.
Versions == {<<5, 3>>, <<10, 4>>, <<10, 5>>}

RECURSIVE Repeated(_, _)
Repeated(v, r) == IF r = 0 THEN <<>> ELSE <<v>> \o Repeated(v, r - 1)

\* Lines 962-966: every per-stage value repeated stage_repeat times.
RECURSIVE Expand(_, _, _)
Expand(per_stage, stage_repeat, n) ==
    IF n = 0 THEN <<>>
    ELSE Expand(per_stage, stage_repeat, n - 1) \o Repeated(per_stage[n], stage_repeat[n])

\* Lines 951-960.
ChannelsPerStage(model_type) ==
    IF model_type = "jasper" THEN <<256, 256, 384, 512, 640, 768, 896, 1024>>
    ELSE <<256, 256, 256, 512, 512, 512, 512, 1024>>

\* Lines 951-960 with an even kernel size in the second stage.
KsizesPerStageEven(model_type) ==
    IF model_type = "jasper" THEN <<11, 12, 13, 17, 21, 25, 29, 1>>
    ELSE <<33, 34, 39, 51, 63, 75, 87, 1>>

KsizesPerStage(model_type) ==
    IF model_type = "jasper" THEN <<11, 11, 13, 17, 21, 25, 29, 1>>
    ELSE <<33, 33, 39, 51, 63, 75, 87, 1>>

\* Lines 947-948, 962-963.
StageRepeat(blocks) ==
    LET m == blocks \div 5 IN <<1, m, m, m, m, m, 1, 1>>

\* A masked convolution of the model.
Conv(in_channels, out_channels, ksize, stride, pad, dilate) ==
    [in_channels |-> in_channels, out_channels |-> out_channels, ksize |-> ksize,
     stride |-> stride, pad |-> pad, dilate |-> dilate, use_mask |-> TRUE]

\* MaskConvBlock1d.__init__ (lines 439-447) and DwsConvBlock1d.__init__
\* (lines 585-598): the masked convolutions of a block, in call order.
BlockConvs(use_dw, in_channels, out_channels, ksize, stride, pad, dilate) ==
    IF use_dw
    THEN <<Conv(in_channels, in_channels, ksize, stride, pad, dilate),
           Conv(in_channels, out_channels, 1, 1, 0, 1)>>
    ELSE <<Conv(in_channels, out_channels, ksize, stride, pad, dilate)>>

\* JasperUnit.__init__ (lines 666-700): the projection blocks of the shortcut
\* (one per entry of in_channels in dense mode) and the convolutions of the body.
RECURSIVE UnitBodyConvs(_, _, _, _, _)
UnitBodyConvs(use_dw, in_channels, out_channels, ksize, repeat) ==
    IF repeat = 0 THEN <<>>
    ELSE BlockConvs(use_dw, in_channels, out_channels, ksize, 1, ksize \div 2, 1)
         \o UnitBodyConvs(use_dw, out_channels, out_channels, ksize, repeat - 1)

UnitOf(in_channels_list, out_channels, ksize, repeat, use_dw, use_dr) ==
    [identity |-> IF use_dr
                  THEN [j \in 1..Len(in_channels_list) |->
                           Conv(in_channels_list[j], out_channels, 1, 1, 0, 1)]
                  ELSE <<Conv(in_channels_list[Len(in_channels_list)], out_channels, 1, 1, 0, 1)>>,
     body |-> UnitBodyConvs(use_dw, in_channels_list[Len(in_channels_list)],
                            out_channels, ksize, repeat),
     use_dr |-> use_dr]

\* Lines 864-877: in_channels_list when unit i (from 1) is constructed: the
\* input channels of units 1..i.
InChannelsList(channels, i) == [j \in 1..i |-> channels[j]]

\* Jasper.__init__ (lines 848-891).
JasperOf(channels, ksizes, repeat, use_dw, use_dr, from_audio) ==
    LET n == Len(channels) IN
    [from_audio |-> from_audio,
     use_dr |-> use_dr,
     classes |-> DefaultClasses,
     init_block |-> BlockConvs(use_dw, DefaultInChannels, channels[1], ksizes[1],
                               2, ksizes[1] \div 2, 1),
     units |-> [i \in 1..(n - 3) |->
                   UnitOf(InChannelsList(channels, i), channels[i + 1], ksizes[i + 1],
                          repeat, use_dw, use_dr)],
     final_block |-> BlockConvs(use_dw, channels[n - 2], channels[n - 1], ksizes[n - 1],
                                1, (2 * ksizes[n - 1]) \div 2 - 1, 2)
                     \o BlockConvs(FALSE, channels[n - 1], channels[n], ksizes[n],
                                   1, ksizes[n] \div 2, 1),
     output |-> [in_channels |-> channels[n], out_channels |-> DefaultClasses]]

\* get_jasper (lines 947-977).
GetJasper(model_type, version, use_dw, use_dr, from_audio) ==
    JasperOf(Expand(ChannelsPerStage(model_type), StageRepeat(version[1]), 8),
             Expand(KsizesPerStage(model_type), StageRepeat(version[1]), 8),
             version[2], use_dw, use_dr, from_audio)

Nets ==
    {GetJasper(m, v, dw, dr, fa) :
        m \in {"jasper", "quartznet"}, v \in Versions,
        dw \in BOOLEAN, dr \in BOOLEAN, fa \in BOOLEAN}

\* jasper5x3, jasper10x4, jasper10x5 (lines 992-1034) with their keyword
\* arguments, which get_jasper and Jasper.__init__ receive.
ExportedNets ==
    {GetJasper("jasper", v, dw, dr, fa) :
        v \in Versions, dw \in BOOLEAN, dr \in BOOLEAN, fa \in BOOLEAN}

\* NemoMelSpecExtractor.__call__ as one call (lines 162-204): the shape of
\* the returned tensor and the returned lengths.
ExtractorCall(waves, hop) ==
    [ok |-> /\ Len(waves) > 0
            /\ \A i \in DOMAIN waves :
                 waves[i] /= 0 /\ FrameAssertion(Features(waves[i], hop)),
     shape |-> <<Len(waves), DefaultInChannels,
                 PaddedExtent(MaxOf({StftFrames(waves[i], hop) : i \in DOMAIN waves}))>>,
     x_len |-> [i \in DOMAIN waves |-> ValidFrames(waves[i], hop)]]

\* MaskConv1d.__call__ on a shape: the convolution raises when the channels
\* of x are not the layer's in_channels or the kernel has no placement.
ShapeConv(shape, x_len, c) ==
    LET t == ConvExtent(shape[3], c) IN
    [ok |-> shape[2] = c.in_channels /\ t > 0,
     shape |-> <<shape[1], c.out_channels, t>>,
     x_len |-> [i \in DOMAIN x_len |-> NewLen(x_len[i], c)]]

\* The first n convolutions of a list called in order, each on what the previous
\* one returned; log holds what each returned.
RECURSIVE ShapeConvs(_, _, _, _)
ShapeConvs(shape, x_len, cs, n) ==
    IF n = 0 THEN [ok |-> TRUE, shape |-> shape, x_len |-> x_len, log |-> <<>>]
    ELSE LET r == ShapeConvs(shape, x_len, cs, n - 1) IN
         IF ~r.ok THEN r
         ELSE LET q == ShapeConv(r.shape, r.x_len, cs[n]) IN
              [ok |-> q.ok, shape |-> q.shape, x_len |-> q.x_len,
               log |-> Append(r.log, [time |-> q.shape[3], x_len |-> q.x_len])]

\* Line 711 replacing the history by the current input.
HistoryAppendLost(y, x) == <<x>>

\* Lines 711-712: y + [x].
HistoryAppend(y, x) == y \o <<x>>

\* self.identity_block(y, y_len) of dense mode: projection block j is called
\* on history entry j, for as many pairs as there are.
ParallelConcurrent(cs, y, y_len) ==
    LET n == IF Len(cs) < Len(y) THEN Len(cs) ELSE Len(y) IN
    [j \in 1..n |-> ShapeConv(y[j].shape, y_len[j], cs[j])]

\* JasperUnit.__call__ (lines 708-728) on tensor x (shape and maker) and
\* length state l; id names the tensor it returns.
UnitCall(x, l, u, id) ==
    LET x_len == l.x_len
        y     == IF u.use_dr THEN HistoryAppend(l.y, x) ELSE <<>>
        y_len == IF u.use_dr THEN HistoryAppend(l.y_len, x_len) ELSE <<>>
        ident == IF u.use_dr THEN ParallelConcurrent(u.identity, y, y_len)
                 ELSE <<ShapeConv(x.shape, x_len, u.identity[1])>>
        body  == ShapeConvs(x.shape, x_len, u.body, Len(u.body))
    IN [ok |-> /\ Len(ident) > 0
               /\ \A j \in DOMAIN ident : ident[j].ok /\ ident[j].shape = ident[1].shape
               /\ body.ok
               /\ body.shape = ident[1].shape,
        x |-> [shape |-> body.shape, id |-> id],
        x_len |-> IF u.use_dr
                  THEN [tuple |-> TRUE, x_len |-> body.x_len, y |-> y, y_len |-> y_len]
                  ELSE [tuple |-> FALSE, x_len |-> body.x_len, y |-> <<>>, y_len |-> <<>>],
        log |-> [j \in DOMAIN ident |-> [time |-> ident[j].shape[3], x_len |-> ident[j].x_len]]
                \o body.log,
        sum |-> [terms |-> Len(ident), blocks |-> Len(u.identity), history |-> y]]

\* The lengths a block returns carrying on the history that some pass on the
\* model holds, as if the history were kept beside the model.
PlainLenKeepsHistory(x_len) ==
    LET holders == {q \in DOMAIN passes : passes[q].len.tuple} IN
    IF holders = {} THEN [tuple |-> FALSE, x_len |-> x_len, y |-> <<>>, y_len |-> <<>>]
    ELSE LET q == CHOOSE h \in holders : TRUE IN
         [tuple |-> FALSE, x_len |-> x_len, y |-> passes[q].len.y,
          y_len |-> passes[q].len.y_len]

\* A plain length vector as the length state.
PlainLen(x_len) == [tuple |-> FALSE, x_len |-> x_len, y |-> <<>>, y_len |-> <<>>]

NoSum == [terms |-> 0, blocks |-> 0, history |-> <<>>]

\* Line 905 with the class axis last.
OutputShapeClassesLast(shape, c) == <<shape[1], shape[3], c.out_channels>>

\* Line 905: self.output, a 1x1 convolution over the channel axis.
OutputShape(shape, c) == <<shape[1], c.out_channels, shape[3]>>

\* The waveform lengths drawn for a forward pass (hop length 160).
PipeSampleCounts ==
    {f * HopLength(DefaultSampleRate, DefaultWindowStrideMs) + r :
        f \in PipeFrameCounts, r \in {0, 1}}

PipeIdle ==
    /\ net = <<>>
    /\ pipe_arg = <<>>
    /\ pipe_x = <<>>
    /\ pipe_len = <<>>
    /\ pipe_stage = 0
    /\ pipe_log = <<>>
    /\ pipe_sum = <<>>
    /\ pipe_trace = <<>>
    /\ pipe_pc = "idle"

\* The arguments of one call of model n: waveforms (with any lengths beside
\* them) when from_audio, else a feature tensor and valid lengths that are at
\* most its time extent.
PipeArgs(n) ==
    IF n.from_audio
    THEN {[waves |-> w, x_len |-> w] :
            w \in UNION {[1..b -> PipeSampleCounts] : b \in PipeBatchSizes}}
    ELSE UNION {{[shape |-> <<b, DefaultInChannels, t>>, x_len |-> l] :
                   l \in [1..b -> 0..t]} : b \in PipeBatchSizes, t \in 1..MaxPipeTime}

\* A model of get_jasper and the arguments of one call.
PipeInit ==
    /\ net \in Nets
    /\ pipe_arg \in PipeArgs(net)
    /\ pipe_x = <<>>
    /\ pipe_len = <<>>
    /\ pipe_stage = 0
    /\ pipe_log = <<>>
    /\ pipe_sum = NoSum
    /\ pipe_trace = <<>>
    /\ pipe_pc = "start"

\* A stage of a forward pass by the name of the attribute that holds it;
\* index is the number of a unit, 0 for the others.
Stage(child, index) == [child |-> child, index |-> index]

\* Lines 855-884 registering the units last to first.
FeaturesChildrenUnitsReversed(n) ==
    <<Stage("init_block", 0)>>
    \o [i \in 1..Len(n.units) |-> Stage("unit", Len(n.units) + 1 - i)]
    \o <<Stage("final_block", 0)>>

\* Lines 852-884: the children of self.features in the order they are set:
\* init_block, unit1..unitN, final_block.
FeaturesChildren(n) ==
    <<Stage("init_block", 0)>>
    \o [i \in 1..Len(n.units) |-> Stage("unit", i)]
    \o <<Stage("final_block", 0)>>

\* Line 904: the child of self.features that is called next.
NextChild == FeaturesChildren(net)[pipe_stage + 1]

\* Lines 904-905: self.features returns after its last child; an exception
\* of a child ends the pass.
AfterChild(ok) ==
    IF ~ok THEN "error"
    ELSE IF pipe_stage + 1 = Len(FeaturesChildren(net)) THEN "output"
    ELSE "features"

\* Lines 901-902: the extractor, when from_audio.
PipePreprocess ==
    /\ pipe_pc = "start"
    /\ IF net.from_audio
       THEN LET r == ExtractorCall(pipe_arg.waves,
                                   HopLength(DefaultSampleRate, DefaultWindowStrideMs)) IN
            /\ pipe_x' = [shape |-> r.shape, id |-> 0]
            /\ pipe_len' = PlainLen(r.x_len)
            /\ pipe_trace' = Append(pipe_trace, Stage("preprocessor", 0))
            /\ pipe_pc' = IF r.ok THEN "features" ELSE "error"
       ELSE /\ pipe_x' = [shape |-> pipe_arg.shape, id |-> 0]
            /\ pipe_len' = PlainLen(pipe_arg.x_len)
            /\ pipe_trace' = pipe_trace
            /\ pipe_pc' = "features"
    /\ UNCHANGED <<net, pipe_arg, pipe_stage, pipe_log, pipe_sum>>
    /\ UNCHANGED <<ctcVars, convVars, extVars, pairVars, igVars>>

\* Line 904, a child of self.features that is the init block.
PipeInitBlock ==
    /\ pipe_pc = "features"
    /\ pipe_stage < Len(FeaturesChildren(net))
    /\ NextChild.child = "init_block"
    /\ LET r == ShapeConvs(pipe_x.shape, pipe_len.x_len, net.init_block,
                           Len(net.init_block)) IN
         /\ pipe_x' = [shape |-> r.shape, id |-> pipe_stage + 1]
         /\ pipe_len' = PlainLen(r.x_len)
         /\ pipe_log' = r.log
         /\ pipe_pc' = AfterChild(r.ok)
    /\ pipe_stage' = pipe_stage + 1
    /\ pipe_trace' = Append(pipe_trace, NextChild)
    /\ UNCHANGED <<net, pipe_arg, pipe_sum>>
    /\ UNCHANGED <<ctcVars, convVars, extVars, pairVars, igVars>>

\* Line 904, a child of self.features that is a unit.
PipeUnit ==
    /\ pipe_pc = "features"
    /\ pipe_stage < Len(FeaturesChildren(net))
    /\ NextChild.child = "unit"
    /\ LET r == UnitCall(pipe_x, pipe_len, net.units[NextChild.index], pipe_stage + 1) IN
         /\ pipe_x' = r.x
         /\ pipe_len' = r.x_len
         /\ pipe_log' = r.log
         /\ pipe_sum' = r.sum
         /\ pipe_pc' = AfterChild(r.ok)
    /\ pipe_stage' = pipe_stage + 1
    /\ pipe_trace' = Append(pipe_trace, NextChild)
    /\ UNCHANGED <<net, pipe_arg>>
    /\ UNCHANGED <<ctcVars, convVars, extVars, pairVars, igVars>>

\* Lines 785-786: x_len[0] in dense mode, which is the lengths when x_len is
\* the tuple of a unit and the length of item 0 alone when it is a plain vector.
FinalBlockLen(use_dr, l) ==
    IF use_dr /\ ~l.tuple THEN <<l.x_len[1]>> ELSE l.x_len

\* Lines 787-788 on the length of item 0 alone: a 0-d Variable is broadcast
\* over the batch by lines 341-342, a numpy scalar is refused by
\* F.expand_dims; which of the two depends on the type of the lengths.
ScalarLenRaises(use_dr, l) ==
    IF use_dr /\ ~l.tuple THEN BOOLEAN ELSE {FALSE}

\* Line 904, a child of self.features that is the final block:
\* JasperFinalBlock.__call__ (lines 784-789), which takes the lengths out of
\* the tuple in dense mode and calls conv1, then conv2.
PipeFinalBlock ==
    /\ pipe_pc = "features"
    /\ pipe_stage < Len(FeaturesChildren(net))
    /\ NextChild.child = "final_block"
    /\ \E raises \in ScalarLenRaises(net.use_dr, pipe_len) :
         LET r == ShapeConvs(pipe_x.shape, FinalBlockLen(net.use_dr, pipe_len),
                             net.final_block, Len(net.final_block)) IN
         /\ pipe_x' = [shape |-> r.shape, id |-> pipe_stage + 1]
         /\ pipe_len' = PlainLen(r.x_len)
         /\ pipe_log' = r.log
         /\ pipe_pc' = AfterChild(r.ok /\ ~raises)
    /\ pipe_stage' = pipe_stage + 1
    /\ pipe_trace' = Append(pipe_trace, NextChild)
    /\ UNCHANGED <<net, pipe_arg, pipe_sum>>
    /\ UNCHANGED <<ctcVars, convVars, extVars, pairVars, igVars>>

\* Line 905: x = self.output(x).
PipeOutput ==
    /\ pipe_pc = "output"
    /\ pipe_x' = [shape |-> OutputShape(pipe_x.shape, net.output), id |-> pipe_stage + 1]
    /\ pipe_trace' = Append(pipe_trace, Stage("output", 0))
    /\ pipe_pc' = IF pipe_x.shape[2] = net.output.in_channels THEN "return" ELSE "error"
    /\ UNCHANGED <<net, pipe_arg, pipe_len, pipe_stage, pipe_log, pipe_sum>>
    /\ UNCHANGED <<ctcVars, convVars, extVars, pairVars, igVars>>

\* Lines 910-911: return x, x_len (return_text is false).
PipeReturn ==
    /\ pipe_pc = "return"
    /\ pipe_pc' = "done"
    /\ UNCHANGED <<net, pipe_arg, pipe_x, pipe_len, pipe_stage, pipe_log, pipe_sum,
                   pipe_trace>>
    /\ UNCHANGED <<ctcVars, convVars, extVars, pairVars, igVars>>

\* Lines 950-960 accepting every model type as the last branch.
SupportedTypeAny(model_type) == TRUE

\* Lines 950-960: any other model type raises ValueError.
SupportedType(model_type) == model_type \in {"jasper", "quartznet"}

\* Line 677: in_channels[-1] raises IndexError on an empty list (dense mode).
UnitBuilds(in_channels, use_dr) == ~use_dr \/ Len(in_channels) > 0

\* Model types, channel counts and kernel sizes of the constructions drawn.
ModelTypes == {"jasper", "quartznet", "Jasper", "jasper_dr", ""}
UnitChannels == {256, 384}
UnitKsizes == {11, 13}
\* Longest input-channel list and largest repeat of the units drawn.
MaxChannelList == 2
MaxRepeat == 3

\* A call of get_jasper, or of JasperUnit's constructor (in_channels is a
\* list in dense mode and a number, held as a list of one, otherwise).
BuildInit ==
    /\ \/ \E m \in ModelTypes, v \in Versions, dw \in BOOLEAN, dr \in BOOLEAN,
             fa \in BOOLEAN :
             pipe_arg = [call |-> "get_jasper", model_type |-> m, version |-> v,
                         use_dw |-> dw, use_dr |-> dr, from_audio |-> fa]
       \/ \E dr \in BOOLEAN, dw \in BOOLEAN, o \in UnitChannels, k \in UnitKsizes,
             r \in 1..MaxRepeat :
             \E l \in SeqsUpTo(UnitChannels, MaxChannelList) :
                /\ (~dr => Len(l) = 1)
                /\ pipe_arg = [call |-> "JasperUnit", in_channels |-> l,
                               out_channels |-> o, ksize |-> k, repeat |-> r,
                               use_dw |-> dw, use_dr |-> dr]
    /\ net = <<>>
    /\ pipe_x = <<>>
    /\ pipe_len = <<>>
    /\ pipe_stage = 0
    /\ pipe_log = <<>>
    /\ pipe_sum = NoSum
    /\ pipe_trace = <<>>
    /\ pipe_pc = "build"

\* get_jasper (lines 947-977) or JasperUnit.__init__ (lines 651-706): the
\* constructed object is returned unless the construction raises.
PipeBuild ==
    /\ pipe_pc = "build"
    /\ IF pipe_arg.call = "get_jasper"
       THEN IF SupportedType(pipe_arg.model_type)
            THEN /\ net' = GetJasper(pipe_arg.model_type, pipe_arg.version, pipe_arg.use_dw,
                                     pipe_arg.use_dr, pipe_arg.from_audio)
                 /\ pipe_pc' = "built"
            ELSE /\ net' = net
                 /\ pipe_pc' = "build_error"
       ELSE IF UnitBuilds(pipe_arg.in_channels, pipe_arg.use_dr)
            THEN /\ net' = UnitOf(pipe_arg.in_channels, pipe_arg.out_channels,
                                  pipe_arg.ksize, pipe_arg.repeat, pipe_arg.use_dw,
                                  pipe_arg.use_dr)
                 /\ pipe_pc' = "built"
            ELSE /\ net' = net
                 /\ pipe_pc' = "build_error"
    /\ UNCHANGED <<pipe_arg, pipe_x, pipe_len, pipe_stage, pipe_log, pipe_sum, pipe_trace>>
    /\ UNCHANGED <<ctcVars, convVars, extVars, pairVars, igVars>>

BuildNext == PipeBuild

\* Most units of the short models drawn.
MaxShortUnits == 2

\* Jasper(channels, ksizes, ...) called directly with the channels and kernel
\* sizes of the init block, of N units and of the two final convolutions.
ShortNets ==
    {JasperOf(<<256>> \o Repeated(256, n) \o <<896, 1024>>,
              <<11>> \o Repeated(11, n) \o <<29, 1>>, 1, dw, dr, fa) :
        n \in 0..MaxShortUnits, dw \in BOOLEAN, dr \in BOOLEAN, fa \in BOOLEAN}

\* A model of N >= 0 units and the arguments of one call.
ShortInit ==
    /\ net \in ShortNets
    /\ pipe_arg \in PipeArgs(net)
    /\ pipe_x = <<>>
    /\ pipe_len = <<>>
    /\ pipe_stage = 0
    /\ pipe_log = <<>>
    /\ pipe_sum = NoSum
    /\ pipe_trace = <<>>
    /\ pipe_pc = "start"

PipeNext ==
    PipePreprocess \/ PipeInitBlock \/ PipeUnit \/ PipeFinalBlock \/ PipeOutput \/ PipeReturn

(***************************************************************************)
(* Two forward passes on one model, each on its own arguments, interleaved *)
(* between the calls of the children of the model.                         *)
(***************************************************************************)
\* The models of the two-pass runs: the shortest version of every family.
PairNets ==
    {GetJasper(m, <<5, 3>>, dw, dr, fa) :
        m \in {"jasper", "quartznet"}, dw \in BOOLEAN, dr \in BOOLEAN, fa \in BOOLEAN}

\* The arguments of a pass on model n: waveforms with, beside them, their
\* sample counts or zeros as x_len; or features and their valid lengths.
PairArgs(n) ==
    IF n.from_audio
    THEN UNION {{[waves |-> w, x_len |-> w],
                 [waves |-> w, x_len |-> [i \in DOMAIN w |-> 0]]} :
                   w \in {<<160>>, <<2560, 2400>>, <<2400, 2400>>}}
    ELSE {[shape |-> <<1, DefaultInChannels, 1>>, x_len |-> <<1>>],
          [shape |-> <<2, DefaultInChannels, 3>>, x_len |-> <<0, 3>>]}

\* Lines 901-902 keeping the x_len of the caller beside the extractor's tensor.
PreprocessCallerLen(n, arg) ==
    IF n.from_audio
    THEN LET r == ExtractorCall(arg.waves,
                                HopLength(DefaultSampleRate, DefaultWindowStrideMs)) IN
         [ok |-> r.ok, x |-> [shape |-> r.shape, id |-> 0], len |-> PlainLen(arg.x_len)]
    ELSE [ok |-> TRUE, x |-> [shape |-> arg.shape, id |-> 0], len |-> PlainLen(arg.x_len)]

\* Lines 901-902 on the arguments of a pass.
Preprocess(n, arg) ==
    IF n.from_audio
    THEN LET r == ExtractorCall(arg.waves,
                                HopLength(DefaultSampleRate, DefaultWindowStrideMs)) IN
         [ok |-> r.ok, x |-> [shape |-> r.shape, id |-> 0], len |-> PlainLen(r.x_len)]
    ELSE [ok |-> TRUE, x |-> [shape |-> arg.shape, id |-> 0], len |-> PlainLen(arg.x_len)]

\* Child k (from 1) of self.features called on (x, x_len): init_block, the
\* units, final_block (lines 855-884).
StageCall(n, k, x, l) ==
    IF k = 1
    THEN LET r == ShapeConvs(x.shape, l.x_len, n.init_block, Len(n.init_block)) IN
         [ok |-> r.ok, x |-> [shape |-> r.shape, id |-> 1], len |-> PlainLen(r.x_len)]
    ELSE IF k <= Len(n.units) + 1
    THEN LET r == UnitCall(x, l, n.units[k - 1], k) IN
         [ok |-> r.ok, x |-> r.x, len |-> r.x_len]
    ELSE LET r == ShapeConvs(x.shape, l.x_len, n.final_block, Len(n.final_block)) IN
         [ok |-> r.ok /\ (n.use_dr => l.tuple),
          x |-> [shape |-> r.shape, id |-> k], len |-> PlainLen(r.x_len)]

\* Line 904: the first k children of self.features called in order.
RECURSIVE FeaturesCall(_, _, _, _)
FeaturesCall(n, k, x, l) ==
    IF k = 0 THEN [ok |-> TRUE, x |-> x, len |-> l]
    ELSE LET r == FeaturesCall(n, k - 1, x, l) IN
         IF r.ok THEN StageCall(n, k, r.x, r.len) ELSE r

\* Jasper.__call__ (lines 896-911) as one call.
JasperCall(n, arg) ==
    LET p == Preprocess(n, arg)
        f == FeaturesCall(n, Len(n.units) + 2, p.x, p.len)
    IN [ok |-> p.ok /\ f.ok,
        x |-> OutputShape(f.x.shape, n.output),
        x_len |-> f.len.x_len]

PairIdle == passes = <<>>

PairInit ==
    /\ net \in PairNets
    /\ \E a \in [1..2 -> PairArgs(net)] :
         passes = [q \in 1..2 |->
                     [arg |-> a[q], x |-> [shape |-> <<>>, id |-> 0],
                      len |-> [tuple |-> FALSE, x_len |-> <<>>, y |-> <<>>, y_len |-> <<>>],
                      stage |-> 0, pc |-> "start"]]
    /\ pipe_arg = <<>>
    /\ pipe_x = <<>>
    /\ pipe_len = <<>>
    /\ pipe_stage = 0
    /\ pipe_log = <<>>
    /\ pipe_sum = <<>>
    /\ pipe_trace = <<>>
    /\ pipe_pc = "idle"

\* Lines 901-902 in pass q.
PassPreprocess(q) ==
    /\ passes[q].pc = "start"
    /\ LET r == Preprocess(net, passes[q].arg) IN
         passes' = [passes EXCEPT ![q] =
                       [@ EXCEPT !.x = r.x, !.len = r.len,
                                 !.pc = IF r.ok THEN "features" ELSE "error"]]
    /\ UNCHANGED <<ctcVars, convVars, extVars, pipeVars, igVars>>

\* Line 904 in pass q: the next child of self.features.
PassStage(q) ==
    /\ passes[q].pc = "features"
    /\ LET k == passes[q].stage + 1
           r == StageCall(net, k, passes[q].x, passes[q].len)
       IN passes' = [passes EXCEPT ![q] =
                       [@ EXCEPT !.x = r.x, !.len = r.len, !.stage = k,
                                 !.pc = IF ~r.ok THEN "error"
                                        ELSE IF k = Len(net.units) + 2 THEN "output"
                                        ELSE "features"]]
    /\ UNCHANGED <<ctcVars, convVars, extVars, pipeVars, igVars>>

\* Lines 905-911 in pass q: the output convolution and the return.
PassOutput(q) ==
    /\ passes[q].pc = "output"
    /\ passes' = [passes EXCEPT ![q] =
                    [@ EXCEPT !.x = [shape |-> OutputShape(passes[q].x.shape, net.output),
                                     id |-> passes[q].stage + 1],
                              !.pc = "done"]]
    /\ UNCHANGED <<ctcVars, convVars, extVars, pipeVars, igVars>>

PassesPreprocess == \E q \in DOMAIN passes : PassPreprocess(q)
PassesStage == \E q \in DOMAIN passes : PassStage(q)
PassesOutput == \E q \in DOMAIN passes : PassOutput(q)

PairNext == PassesPreprocess \/ PassesStage \/ PassesOutput

(***************************************************************************)
(* IGCV3 (igcv3.py): the shapes of one forward pass                        *)
(***************************************************************************)
\* Defaults of IGCV3.__init__.
ImageChannels == 3
ImageClasses == 1000
\* The input size of _test and the largest batch drawn.
TestInSize == 224
MaxImageBatch == 2

\* width_scale is held in quarters: 4 is 1.0, 3 is 0.75, 2 is 0.5, 1 is 0.25.
WidthScales == 1..5
ExportedWidthScales == 1..4

\* The spatial sizes drawn for the argument.
ImageSizes == {32, TestInSize - 1, TestInSize, TestInSize + 32}

\* make_even of get_mobilenetv2.
MakeEven(x) == IF x % 2 = 0 THEN x ELSE x + 1

\* make_even(int(c * width_scale)) with width_scale in quarters.
ScaledChannels(c, width_scale) == MakeEven((c * width_scale) \div 4)

\* The reduce of get_mobilenetv2 over the first n entries of
\* zip(channels_per_layers, layers, downsample), starting from [[]].
RECURSIVE StageChannels(_, _, _, _)
StageChannels(channels_per_layers, stage_layers, downsample, n) ==
    IF n = 0 THEN << <<>> >>
    ELSE LET x == StageChannels(channels_per_layers, stage_layers, downsample, n - 1)
             y == Repeated(channels_per_layers[n], stage_layers[n])
         IN IF downsample[n] /= 0 THEN Append(x, y)
            ELSE SubSeq(x, 1, Len(x) - 1) \o <<x[Len(x)] \o y>>

\* ConvBlock.__init__: a convolution (with batch normalisation and an
\* optional activation, which keep the shape).
ConvBlock(in_channels, out_channels, ksize, stride, pad, groups, activate) ==
    [in_channels |-> in_channels, out_channels |-> out_channels, ksize |-> ksize,
     stride |-> stride, pad |-> pad, groups |-> groups, activate |-> activate]

Conv1x1Block(in_channels, out_channels, groups, activate) ==
    ConvBlock(in_channels, out_channels, 1, 1, 0, groups, activate)

Dwconv3x3Block(in_channels, out_channels, stride, activate) ==
    ConvBlock(in_channels, out_channels, 3, stride, 1, out_channels, activate)

\* InvResUnit.__init__.
InvResUnit(in_channels, out_channels, stride, expansion) ==
    LET mid_channels == IF expansion THEN in_channels * 6 ELSE in_channels
        groups == 2
    IN [residual |-> (in_channels = out_channels) /\ (stride = 1),
        conv1 |-> Conv1x1Block(in_channels, mid_channels, groups, FALSE),
        c_shuffle |-> [channels |-> mid_channels, groups |-> groups],
        conv2 |-> Dwconv3x3Block(mid_channels, mid_channels, stride, TRUE),
        conv3 |-> Conv1x1Block(mid_channels, out_channels, groups, FALSE)]

\* The stride of unit j of stage i (both from 0) with every stage reducing.
UnitStrideEveryStage(i, j) == IF j = 0 THEN 2 ELSE 1

\* stride = 2 if (j == 0) and (i != 0) else 1.
UnitStride(i, j) == IF (j = 0) /\ (i /= 0) THEN 2 ELSE 1

\* expansion = (i != 0) or (j != 0).
UnitExpansion(i, j) == (i /= 0) \/ (j /= 0)

\* The (i, j, out_channels) of the loops of IGCV3.__init__ over the first n
\* stages, in the order the units are set.
RECURSIVE UnitsInOrder(_, _)
UnitsInOrder(channels, n) ==
    IF n = 0 THEN <<>>
    ELSE UnitsInOrder(channels, n - 1)
         \o [j \in 1..Len(channels[n]) |->
                [i |-> n - 1, j |-> j - 1, out_channels |-> channels[n][j]]]

\* IGCV3.__init__: init_block, the units of stage1..stageN, final_block,
\* final_pool, and the output layers flatten and fc.
IGCV3(channels, init_block_channels, final_block_channels) ==
    LET us == UnitsInOrder(channels, Len(channels))
        last == IF Len(us) = 0 THEN init_block_channels ELSE us[Len(us)].out_channels
    IN [init_block |-> ConvBlock(ImageChannels, init_block_channels, 3, 2, 1, 1, TRUE),
        units |-> [k \in 1..Len(us) |->
                     InvResUnit(IF k = 1 THEN init_block_channels
                                ELSE us[k - 1].out_channels,
                                us[k].out_channels,
                                UnitStride(us[k].i, us[k].j),
                                UnitExpansion(us[k].i, us[k].j))],
        final_block |-> Conv1x1Block(last, final_block_channels, 1, TRUE),
        final_pool |-> [ksize |-> 7, stride |-> 1],
        flatten |-> final_block_channels,
        fc |-> [in_size |-> final_block_channels, out_size |-> ImageClasses]]

\* get_mobilenetv2 (pretrained false), width_scale in quarters.
GetMobilenetv2(width_scale) ==
    LET stage_layers == <<1, 4, 6, 8, 6, 6, 1>>
        downsample == <<0, 1, 1, 1, 0, 1, 0>>
        channels_per_layers == <<16, 24, 32, 64, 96, 160, 320>>
        channels == StageChannels(channels_per_layers, stage_layers, downsample, 7)
    IN IF width_scale /= 4
       THEN IGCV3([i \in DOMAIN channels |->
                     [j \in DOMAIN channels[i] |->
                        ScaledChannels(channels[i][j], width_scale)]],
                  ScaledChannels(32, width_scale),
                  IF width_scale > 4 THEN ScaledChannels(1280, width_scale) ELSE 1280)
       ELSE IGCV3(channels, 32, 1280)

\* The output size of a convolution or pooling window along one axis.
ConvOutsize(size, ksize, stride, pad) == (size + 2 * pad - ksize) \div stride + 1

\* ConvBlock.__call__ on a shape (batch, channels, height, width): the
\* convolution raises on a channel count that is not its own or not divisible
\* into its groups, and when the window has no placement.
ConvBlockCall(x, c) ==
    LET h == ConvOutsize(x[3], c.ksize, c.stride, c.pad)
        w == ConvOutsize(x[4], c.ksize, c.stride, c.pad)
    IN [ok |-> /\ x[2] = c.in_channels
               /\ c.in_channels % c.groups = 0
               /\ c.out_channels % c.groups = 0
               /\ h > 0 /\ w > 0,
        shape |-> <<x[1], c.out_channels, h, w>>]

\* self.c_shuffle(x): a permutation of the channels.
ChannelShuffleCall(x, c) ==
    [ok |-> x[2] = c.channels /\ c.channels % c.groups = 0, shape |-> x]

\* InvResUnit.__call__.
InvResUnitCall(x, u) ==
    LET a == ConvBlockCall(x, u.conv1)
        b == ChannelShuffleCall(a.shape, u.c_shuffle)
        c == ConvBlockCall(b.shape, u.conv2)
        d == ConvBlockCall(c.shape, u.conv3)
    IN [ok |-> a.ok /\ b.ok /\ c.ok /\ d.ok /\ (u.residual => d.shape = x),
        shape |-> d.shape]

\* F.average_pooling_2d with ksize 7 and stride 1.
FinalPoolCall(x, p) ==
    LET h == ConvOutsize(x[3], p.ksize, p.stride, 0)
        w == ConvOutsize(x[4], p.ksize, p.stride, 0)
    IN [ok |-> h > 0 /\ w > 0, shape |-> <<x[1], x[2], h, w>>]

\* F.reshape to (-1, in_channels): as many rows as the elements fill.
FlattenCall(x, in_channels) ==
    LET size == x[1] * x[2] * x[3] * x[4] IN
    [ok |-> size % in_channels = 0, shape |-> <<size \div in_channels, in_channels>>]

\* L.Linear on a matrix.
LinearCall(x, fc) == [ok |-> x[2] = fc.in_size, shape |-> <<x[1], fc.out_size>>]

IgIdle ==
    /\ ig_net = <<>>
    /\ ig_arg = <<>>
    /\ ig_x = <<>>
    /\ ig_pos = 0
    /\ ig_pc = "idle"

\* A model of get_mobilenetv2 and an image batch as the argument of a call.
IgInit ==
    /\ ig_net \in {GetMobilenetv2(ws) : ws \in WidthScales}
    /\ ig_arg \in {<<b, ImageChannels, h, w>> :
                     b \in 1..MaxImageBatch, h \in ImageSizes, w \in ImageSizes}
    /\ ig_x = ig_arg
    /\ ig_pos = 0
    /\ ig_pc = "init_block"

\* The position after a layer returned or raised.
IgAfter(ok, pc) == IF ok THEN pc ELSE "error"

\* self.features, child init_block.
IgInitBlock ==
    /\ ig_pc = "init_block"
    /\ LET r == ConvBlockCall(ig_x, ig_net.init_block) IN
         /\ ig_x' = r.shape
         /\ ig_pc' = IgAfter(r.ok, IF Len(ig_net.units) = 0 THEN "final_block" ELSE "stages")
    /\ UNCHANGED <<ig_net, ig_arg, ig_pos>>
    /\ UNCHANGED <<ctcVars, convVars, extVars, pipeVars, pairVars>>

\* self.features, children stage1..stageN: the next unit in order.
IgUnit ==
    /\ ig_pc = "stages"
    /\ ig_pos < Len(ig_net.units)
    /\ LET r == InvResUnitCall(ig_x, ig_net.units[ig_pos + 1]) IN
         /\ ig_x' = r.shape
         /\ ig_pc' = IgAfter(r.ok, IF ig_pos + 1 = Len(ig_net.units) THEN "final_block"
                                   ELSE "stages")
    /\ ig_pos' = ig_pos + 1
    /\ UNCHANGED <<ig_net, ig_arg>>
    /\ UNCHANGED <<ctcVars, convVars, extVars, pipeVars, pairVars>>

\* self.features, child final_block.
IgFinalBlock ==
    /\ ig_pc = "final_block"
    /\ LET r == ConvBlockCall(ig_x, ig_net.final_block) IN
         /\ ig_x' = r.shape
         /\ ig_pc' = IgAfter(r.ok, "final_pool")
    /\ UNCHANGED <<ig_net, ig_arg, ig_pos>>
    /\ UNCHANGED <<ctcVars, convVars, extVars, pipeVars, pairVars>>

\* self.features, child final_pool.
IgFinalPool ==
    /\ ig_pc = "final_pool"
    /\ LET r == FinalPoolCall(ig_x, ig_net.final_pool) IN
         /\ ig_x' = r.shape
         /\ ig_pc' = IgAfter(r.ok, "flatten")
    /\ UNCHANGED <<ig_net, ig_arg, ig_pos>>
    /\ UNCHANGED <<ctcVars, convVars, extVars, pipeVars, pairVars>>

\* self.output, child flatten.
IgFlatten ==
    /\ ig_pc = "flatten"
    /\ LET r == FlattenCall(ig_x, ig_net.flatten) IN
         /\ ig_x' = r.shape
         /\ ig_pc' = IgAfter(r.ok, "fc")
    /\ UNCHANGED <<ig_net, ig_arg, ig_pos>>
    /\ UNCHANGED <<ctcVars, convVars, extVars, pipeVars, pairVars>>

\* self.output, child fc.
IgFc ==
    /\ ig_pc = "fc"
    /\ LET r == LinearCall(ig_x, ig_net.fc) IN
         /\ ig_x' = r.shape
         /\ ig_pc' = IgAfter(r.ok, "return")
    /\ UNCHANGED <<ig_net, ig_arg, ig_pos>>
    /\ UNCHANGED <<ctcVars, convVars, extVars, pipeVars, pairVars>>

\* return x.
IgReturn ==
    /\ ig_pc = "return"
    /\ ig_pc' = "done"
    /\ UNCHANGED <<ig_net, ig_arg, ig_x, ig_pos>>
    /\ UNCHANGED <<ctcVars, convVars, extVars, pipeVars, pairVars>>

IgNext ==
    IgInitBlock \/ IgUnit \/ IgFinalBlock \/ IgFinalPool \/ IgFlatten \/ IgFc \/ IgReturn

(***************************************************************************)
(* Specifications                                                          *)
(***************************************************************************)
InitCtc == CtcInit /\ ConvIdle /\ ExtIdle /\ PipeIdle /\ PairIdle /\ IgIdle

SpecCtc == InitCtc /\ [][CtcNext]_vars

InitConv == ConvInit /\ CtcIdle /\ ExtIdle /\ PipeIdle /\ PairIdle /\ IgIdle

SpecConv == InitConv /\ [][ConvNext]_vars

InitConvSizes == ConvSizesInit /\ CtcIdle /\ ExtIdle /\ PipeIdle /\ PairIdle /\ IgIdle

SpecConvSizes == InitConvSizes /\ [][ConvNext]_vars

InitExtract == ExtInit /\ CtcIdle /\ ConvIdle /\ PipeIdle /\ PairIdle /\ IgIdle

SpecExtract == InitExtract /\ [][ExtNext]_vars

InitBuild == BuildInit /\ CtcIdle /\ ConvIdle /\ ExtIdle /\ PairIdle /\ IgIdle

SpecBuild == InitBuild /\ [][BuildNext]_vars

InitPair == PairInit /\ CtcIdle /\ ConvIdle /\ ExtIdle /\ IgIdle

SpecPair == InitPair /\ [][PairNext]_vars

InitPipe == PipeInit /\ CtcIdle /\ ConvIdle /\ ExtIdle /\ PairIdle /\ IgIdle

SpecPipe == InitPipe /\ [][PipeNext]_vars

InitShort == ShortInit /\ CtcIdle /\ ConvIdle /\ ExtIdle /\ PairIdle /\ IgIdle

SpecShort == InitShort /\ [][PipeNext]_vars

InitIgcv3 == IgInit /\ CtcIdle /\ ConvIdle /\ ExtIdle /\ PipeIdle /\ PairIdle

SpecIgcv3 == InitIgcv3 /\ [][IgNext]_vars

(***************************************************************************)
(* Claims                                                                  *)
(***************************************************************************)
\* The prediction of the current outer iteration, and whether its inner loop
\* has consumed every frame.
CurrentPrediction == predictions[pred_i]

FramesConsumed == ctc_pc = "frame" /\ pred_j > Len(predictions[pred_i])

\* C1: CtcDecoder starts every prediction with previous = blank; each frame
\* index p is appended iff p /= blank and (p /= previous or previous = blank),
\* and previous becomes p whether or not p was appended; with blank = 5,
\* [1,1,2,5,2,3] decodes to [1,2,2,3], [5,5,5] to [], [1,5,1] to [1,1] and
\* [4,4,4,4] to [4].
C1_CtcCollapse ==
    /\ [][(ctc_pc = "loop" /\ ctc_pc' = "frame") =>
            (previous' = blank_id /\ decoded_prediction' = <<>>)]_vars
    /\ [][(ctc_pc = "frame" /\ pred_j' = pred_j + 1) =>
            LET p == predictions[pred_i][pred_j] IN
            /\ previous' = p
            /\ IF p /= blank_id /\ (p /= previous \/ previous = blank_id)
               THEN decoded_prediction' = Append(decoded_prediction, p)
               ELSE decoded_prediction' = decoded_prediction]_vars
    /\ [](FramesConsumed /\ blank_id = 5 =>
            /\ CurrentPrediction = <<1, 1, 2, 5, 2, 3>> => decoded_prediction = <<1, 2, 2, 3>>
            /\ CurrentPrediction = <<5, 5, 5>> => decoded_prediction = <<>>
            /\ CurrentPrediction = <<1, 5, 1>> => decoded_prediction = <<1, 1>>
            /\ CurrentPrediction = <<4, 4, 4, 4>> => decoded_prediction = <<4>>)

\* C1 witness: with blank = 5 the frames [1,5,1] have been consumed and both
\* 1s were appended.
C1_Witness ==
    /\ FramesConsumed
    /\ blank_id = 5
    /\ CurrentPrediction = <<1, 5, 1>>
    /\ decoded_prediction = <<1, 1>>
    /\ previous = 1

\* The layer of the latest call, and whether that call returned.
LastLayer == layers[conv_pos]

Returned == conv_pos >= 1 /\ conv_pc = "run"

BareReturned == Returned /\ LastLayer.kind = "block" /\ ~LastLayer.use_bn

BlockReturned == Returned /\ LastLayer.kind = "block"

\* The numerator of the length formula for an incoming length l.
LenNumerator(l, c) == l + 2 * c.pad - c.dilate * (c.ksize - 1) - 1

\* C2: with masking enabled MaskConv1d returns, for every item, the length
\* floor((len + 2*pad - dilation*(kernel-1) - 1) / stride) + 1 of the incoming
\* length len; with masking disabled it returns the incoming length unchanged.
C2_NewLength ==
    BlockReturned =>
        \A i \in DOMAIN len_in :
            LET c == LastLayer
                q == conv_len[i] - 1
            IN IF c.use_mask
               THEN /\ q * c.stride <= LenNumerator(len_in[i], c)
                    /\ LenNumerator(len_in[i], c) < (q + 1) * c.stride
               ELSE conv_len[i] = len_in[i]

\* C2 witness: a masked stride-2 convolution returned for an item whose
\* numerator is odd (the floor rounds) and negative.
C2_Witness ==
    /\ BareReturned
    /\ LastLayer.use_mask
    /\ LastLayer.stride = 2
    /\ LenNumerator(len_in[1], LastLayer) = -3
    /\ conv_len[1] = -1

\* The dilated kernel has a placement inside the padded axis of l positions.
KernelFits(l, c) == l + 2 * c.pad >= c.dilate * (c.ksize - 1) + 1

Poke(x, i, t, v) == [x EXCEPT ![i] = [@ EXCEPT ![t] = v]]

\* C4: with masking enabled the tensor handed to the convolution has the
\* full shape of the input, is zero at every position t >= the incoming valid
\* length and equal to the input below it; the returned tensor is the block
\* applied to that masked tensor; and the returned tensor does not change
\* when an input value at a position >= the incoming valid length changes.
C4_MaskBeforeConv ==
    BlockReturned /\ LastLayer.use_mask =>
        LET c == LastLayer IN
        /\ Len(x_masked) = Len(x_in)
        /\ \A i \in DOMAIN x_in :
             /\ Len(x_masked[i]) = Len(x_in[i])
             /\ \A t \in DOMAIN x_in[i] :
                  x_masked[i][t] = IF t - 1 >= len_in[i] THEN 0 ELSE x_in[i][t]
        /\ LET y  == Convolution1d(x_masked, c).x
               y1 == IF c.use_bn THEN BatchNorm(y) ELSE y
           IN conv_x = IF c.activate THEN Relu(y1) ELSE y1
        /\ \A i \in DOMAIN x_in : \A t \in DOMAIN x_in[i] : \A v \in Values \cup {-1} :
             t - 1 >= len_in[i] =>
                 MaskConvBlock1dCall(Poke(x_in, i, t, v), len_in, c).x = conv_x

\* C4 witness: a masked stride-2 block returned for an item that held a
\* non-zero value in its padding, which the masked tensor does not hold.
C4_Witness ==
    /\ BlockReturned
    /\ LastLayer.use_mask /\ LastLayer.stride = 2 /\ LastLayer.ksize = 3
    /\ TimeSize(x_in) = 2
    /\ len_in[1] = 1
    /\ x_in[1][2] = 1
    /\ x_masked[1][2] = 0
    /\ x_masked[1][1] = 1

\* The item with the smaller valid length of a batch of two.
Shorter == IF x0_len[1] < x0_len[2] THEN 1 ELSE 2

\* The shorter item alone in a batch of one whose time axis has t positions.
AloneRun(t) ==
    RunStack(layers, conv_pos, <<SubSeq(x0[Shorter], 1, t)>>, <<x0_len[Shorter]>>)

\* Every element called so far masks its input.
StackMasked ==
    \A k \in 1..conv_pos : layers[k].kind = "unit" \/ layers[k].use_mask

\* C5: for a batch of two items of different valid lengths, after every
\* element of the stack, the shorter item's valid length and its output at
\* every position below that length equal those obtained when the shorter
\* item is processed alone (in a batch of one, on a time axis of any extent
\* from its valid length to the batch's extent).
C5_NoLeakage ==
    Returned /\ StackMasked /\ Len(x0) = 2 /\ x0_len[1] /= x0_len[2] =>
        \A t \in Max(1, x0_len[Shorter])..TimeSize(x0) :
            LET a == AloneRun(t) IN
            /\ a.ok => a.x_len[1] = conv_len[Shorter]
            /\ \A o \in 1..conv_len[Shorter] :
                 a.ok /\ a.x[1][o] = conv_x[Shorter][o]

\* C5 witness: a stack of two elements, the second a unit, returned for a
\* batch whose shorter item (of length 1) sits beside a longer item with
\* non-zero values, and the shorter item has a non-empty output.
C5_Witness ==
    /\ Returned
    /\ conv_pos = 2
    /\ LastLayer.kind = "unit"
    /\ StackMasked
    /\ x0_len[1] = 1 /\ x0_len[2] = 2
    /\ x0[1] = <<1, 1>> /\ x0[2] = <<1, 1>>
    /\ conv_len[1] >= 1

\* C8: the valid frame count returned for a waveform of n samples is
\* ceil(n / hop_length), whatever the other items of the batch are; with the
\* default configuration (hop_length 160) 16000 samples give 100.
C8_ValidFrameCount ==
    ext_pc = "done" =>
        /\ Len(ext_len) = Len(xs)
        /\ \A i \in DOMAIN xs :
             /\ ext_len[i] * hop_length >= xs[i]
             /\ (ext_len[i] - 1) * hop_length < xs[i]
             /\ (hop_length = 160 /\ xs[i] = 16000) => ext_len[i] = 100

\* C8 witness: the default extractor returned 100 for a 16000-sample waveform
\* batched with a shorter one.
C8_Witness ==
    /\ ext_pc = "done"
    /\ hop_length = 160
    /\ Len(xs) = 2
    /\ xs[1] = 16000 /\ xs[2] = 2560
    /\ ext_len[1] = 100 /\ ext_len[2] = 16

\* t is the smallest multiple of pad_align that is >= m.
SmallestAlignedAtLeast(t, m) == (t % PadAlign) = 0 /\ t >= m /\ t - PadAlign < m

\* Every row of the returned tensor is zero from the item's valid length on.
ZeroBeyondValid ==
    \A i \in DOMAIN ext_x : \A t \in DOMAIN ext_x[i] :
        t - 1 >= ext_len[i] => ext_x[i][t] = 0

\* C9 as stated: the time extent of the returned tensor is the smallest
\* multiple of 16 that is >= the largest valid frame count ceil(n / hop_length)
\* of the batch, and every position t >= validLength[i] of item i is zero.
C9_Original ==
    ext_pc = "done" =>
        /\ SmallestAlignedAtLeast(TimeSize(ext_x),
                                  MaxOf({ext_len[i] : i \in DOMAIN ext_len}))
        /\ ZeroBeyondValid

\* C9 (amended): the time extent of the returned tensor is the smallest
\* multiple of 16 that is >= the largest STFT frame count
\* 1 + floor(n / hop_length) of the batch, and every position
\* t >= validLength[i] of item i is zero.
C9_PaddedExtent ==
    ext_pc = "done" =>
        /\ \A i \in DOMAIN ext_x : Len(ext_x[i]) = TimeSize(ext_x)
        /\ \E m \in {1 + xs[i] \div hop_length : i \in DOMAIN xs} :
             /\ \A i \in DOMAIN xs : 1 + xs[i] \div hop_length <= m
             /\ SmallestAlignedAtLeast(TimeSize(ext_x), m)
        /\ ZeroBeyondValid

\* C9 witness: the longest waveform of a returned batch has exactly 16 hops
\* (valid length 16, 17 STFT frames): the tensor has 32 positions, the last
\* valid column of the item is data and the column after it is zero.
C9_Witness ==
    /\ ext_pc = "done"
    /\ Len(xs) = 2
    /\ xs[1] = 16 * hop_length /\ xs[2] < xs[1]
    /\ ext_len[1] = 16
    /\ TimeSize(ext_x) = 32
    /\ ext_x[1][16] = 1 /\ ext_x[1][17] = 0


(***************************************************************************)
(* The forward pass of the model.                                          *)
(***************************************************************************)
PipeBatch == IF net.from_audio THEN Len(pipe_arg.waves) ELSE pipe_arg.shape[1]

PipeRunning == pipe_pc \in {"features", "output", "return", "done"}

LengthsFit(x_len, time) ==
    \A i \in DOMAIN x_len : x_len[i] \in Nat /\ x_len[i] <= time

\* C6: at every stage of a forward pass (the extractor's output, the output
\* of every masked convolution of the init block, of the units, shortcut
\* projections included, and of the final block) every item's valid length
\* is a non-negative integer that is at most the time extent of the tensor
\* it accompanies.
C6_ValidLengthBounded ==
    PipeRunning =>
        /\ LengthsFit(pipe_len.x_len, pipe_x.shape[3])
        /\ \A e \in DOMAIN pipe_log : LengthsFit(pipe_log[e].x_len, pipe_log[e].time)
        /\ \A j \in DOMAIN pipe_len.y : LengthsFit(pipe_len.y_len[j], pipe_len.y[j].shape[3])

C6_Witness ==
    /\ pipe_pc = "done"
    /\ net.from_audio
    /\ Len(pipe_log) >= 2
    /\ \E i \in DOMAIN pipe_len.x_len :
         pipe_len.x_len[i] > 0 /\ pipe_len.x_len[i] < pipe_x.shape[3]
    /\ \E i \in DOMAIN pipe_len.x_len : pipe_len.x_len[i] = pipe_x.shape[3]

\* C7: in dense mode the k-th unit works on a history of exactly k entries,
\* entry j being the input of unit j; its shortcut sums exactly k projected
\* terms; it was constructed with exactly k projection blocks, block j sized
\* for history entry j; and the history it passes on holds k entries.
C7_DenseHistory ==
    (pipe_pc = "features" /\ net.use_dr /\ pipe_stage >= 2) =>
        LET k == pipe_stage - 1 IN
        /\ Len(pipe_sum.history) = k
        /\ \A j \in 1..k : pipe_sum.history[j].id = j
        /\ pipe_sum.terms = k
        /\ pipe_sum.blocks = k
        /\ \A j \in 1..k :
             net.units[k].identity[j].in_channels = pipe_sum.history[j].shape[2]
        /\ pipe_len.tuple
        /\ pipe_len.y = pipe_sum.history
        /\ Len(pipe_len.y_len) = k

C7_Witness ==
    /\ pipe_pc = "features"
    /\ net.use_dr
    /\ Len(net.units) = 10
    /\ pipe_stage = 11
    /\ pipe_sum.terms = 10
    /\ pipe_sum.history[3].shape[2] /= pipe_sum.history[10].shape[2]

LastConv == pipe_log[Len(pipe_log)]

\* C10 as stated: the returned tensor has its axes in the order batch, time,
\* classes, and the second returned value is the final valid lengths.
C10_Original ==
    pipe_pc = "done" =>
        /\ pipe_x.shape[1] = PipeBatch
        /\ pipe_x.shape[2] = LastConv.time
        /\ pipe_x.shape[3] = net.classes
        /\ ~pipe_len.tuple
        /\ pipe_len.x_len = LastConv.x_len

\* C10: the tensor returned by Jasper.__call__ (return_text false) has its
\* axes in the order batch, classes, time: axis 1 has size equal to the
\* number of classes and axis 2 has the time extent of the final block's
\* output; the second returned value is the vector of final valid lengths,
\* one per item.
C10_LogitsShape ==
    pipe_pc = "done" =>
        /\ Len(pipe_x.shape) = 3
        /\ pipe_x.shape[1] = PipeBatch
        /\ pipe_x.shape[2] = net.classes
        /\ pipe_x.shape[3] = LastConv.time
        /\ ~pipe_len.tuple
        /\ pipe_len.x_len = LastConv.x_len
        /\ Len(pipe_len.x_len) = PipeBatch

C10_Witness ==
    /\ pipe_pc = "done"
    /\ PipeBatch = 2
    /\ pipe_x.shape[3] /= pipe_x.shape[2]
    /\ pipe_len.x_len[1] /= pipe_len.x_len[2]

\* The sample count all waveforms of the call share, 0 when they differ.
CommonSamples ==
    IF \A i \in DOMAIN pipe_arg.waves : pipe_arg.waves[i] = pipe_arg.waves[1]
    THEN pipe_arg.waves[1] ELSE 0

\* C11: jasper5x3, jasper10x4 and jasper10x5 built with from_audio, called on
\* waveforms that all have L >= 160 samples, return y with y.shape[0] the
\* batch size, y.shape[1] the number of classes and y.shape[2] half of the
\* smallest multiple of 16 that is >= 1 + floor(L / 160), which lies in
\* 2*floor(L/640) .. 2*floor(L/640) + 8.
C11_OutputExtent ==
    (net \in ExportedNets /\ net.from_audio /\ pipe_pc \in {"done", "error"}
        /\ CommonSamples >= 160) =>
        LET L == CommonSamples IN
        /\ pipe_pc = "done"
        /\ pipe_x.shape[1] = Len(pipe_arg.waves)
        /\ pipe_x.shape[2] = DefaultClasses
        /\ SmallestAlignedAtLeast(2 * pipe_x.shape[3], 1 + L \div 160)
        /\ pipe_x.shape[3] >= 2 * (L \div 640)
        /\ pipe_x.shape[3] <= 2 * (L \div 640) + 8

C11_Witness ==
    /\ pipe_pc = "done"
    /\ net \in ExportedNets
    /\ net.from_audio
    /\ Len(pipe_arg.waves) = 2
    /\ CommonSamples = 2560
    /\ pipe_x.shape[3] = 16

(***************************************************************************)
(* Errors of the extractor.                                                *)
(***************************************************************************)
OneFrame(n) == n > 0 /\ Len(Features(n, hop_length)) = 1

\* C12: the extractor call ends in an error and returns no result whenever
\* the spectrogram of some item has exactly one frame (a call that returned
\* had no such item, and a call that failed returned nothing); a non-empty
\* batch whose items all have spectrograms of two or more frames does not
\* end in an error.
C12_OneFrameFails ==
    /\ ext_pc = "done" =>
         /\ \A i \in DOMAIN xs : ~OneFrame(xs[i])
         /\ \A i \in DOMAIN ys : Len(ys[i]) >= 2
    /\ ext_pc = "error" => ext_x = <<>>
    /\ (ext_pc = "error" /\ Len(xs) > 0) => (xs[ext_i] = 0 \/ OneFrame(xs[ext_i]))

C12_Witness ==
    /\ ext_pc = "error"
    /\ Len(xs) = 2
    /\ ext_i = 2
    /\ Len(ys) = 1
    /\ OneFrame(xs[2])

\* C13: an item that is all padding never causes an error: for a zero-length
\* waveform the extractor returns valid length 0 and an all-zero row instead
\* of raising, and every masked convolution of the pipeline completes on an
\* item of valid length 0 and returns valid length 0 for it.
C13_PaddingNeverFails ==
    /\ (ext_pc = "error" /\ Len(xs) > 0) => xs[ext_i] /= 0
    /\ ext_pc = "done" =>
         \A i \in DOMAIN xs :
            xs[i] = 0 => /\ ext_len[i] = 0
                         /\ \A t \in DOMAIN ext_x[i] : ext_x[i][t] = 0
    /\ pipe_pc /= "error"
    /\ PipeRunning =>
         \A i \in DOMAIN pipe_len.x_len :
            (~net.from_audio /\ pipe_arg.x_len[i] = 0) =>
                \A e \in DOMAIN pipe_log : pipe_log[e].x_len[i] = 0

(***************************************************************************)
(* Errors of a masked convolution.                                         *)
(***************************************************************************)
FirstConv == layers[1]

\* The value of line 344 for an incoming length l, written out.
ComputedLength(l) ==
    (l + 2 * FirstConv.pad - FirstConv.dilate * (FirstConv.ksize - 1) - 1)
        \div FirstConv.stride + 1

\* The padded time axis of the tensor holds a placement of the dilated kernel.
TensorFits ==
    TimeSize(x0) + 2 * FirstConv.pad >= FirstConv.dilate * (FirstConv.ksize - 1) + 1

BuildEnded == pipe_pc \in {"built", "build_error"}

NoForwardPass == pipe_x = <<>> /\ pipe_len = <<>> /\ pipe_stage = 0 /\ pipe_log = <<>>

\* C15: get_jasper with a model-family tag other than "jasper" and
\* "quartznet", and the construction of a dense-mode unit with an empty
\* input-channel list, end in an error raised during construction: no model
\* is returned and no forward pass has begun.
C15_ConstructionErrors ==
    BuildEnded =>
        /\ (pipe_arg.call = "get_jasper"
                /\ pipe_arg.model_type \notin {"jasper", "quartznet"}) =>
             (pipe_pc = "build_error" /\ net = <<>> /\ NoForwardPass)
        /\ (pipe_arg.call = "JasperUnit" /\ pipe_arg.use_dr
                /\ Len(pipe_arg.in_channels) = 0) =>
             (pipe_pc = "build_error" /\ net = <<>> /\ NoForwardPass)

C15_Witness ==
    /\ pipe_pc = "build_error"
    /\ pipe_arg.call = "JasperUnit"
    /\ pipe_arg.use_dr
    /\ pipe_arg.in_channels = <<>>

(***************************************************************************)
(* CtcDecoder on whole sequences.                                          *)
(***************************************************************************)
IndicesInRange ==
    \A i \in DOMAIN predictions :
        \A j \in DOMAIN predictions[i] : predictions[i][j] \in 0..blank_id

\* C16 as stated: whatever the index values, the decoder completes without
\* an error and returns one string per input sequence.
C16_Original ==
    /\ ctc_pc /= "error"
    /\ ctc_pc = "done" => Len(hypotheses) = Len(predictions)

\* C16: for every vocabulary and every batch of sequences, of any length
\* including 0, of indices in 0..len(vocabulary), CtcDecoder completes without
\* an error and returns exactly one string (possibly empty) per sequence,
\* made of characters of the vocabulary.
C16_DecodesInRange ==
    IndicesInRange =>
        /\ ctc_pc /= "error"
        /\ ctc_pc = "done" =>
             /\ Len(hypotheses) = Len(predictions)
             /\ \A i \in DOMAIN hypotheses :
                  \A k \in DOMAIN hypotheses[i] :
                     \E c \in DOMAIN labels_map : hypotheses[i][k] = labels_map[c]

C16_Witness ==
    /\ ctc_pc = "done"
    /\ IndicesInRange
    /\ Len(predictions) = 2
    /\ predictions[1] = <<>>
    /\ hypotheses[1] = <<>>
    /\ predictions[2] = <<blank_id, 0>>
    /\ hypotheses[2] = <<"a">>

\* Every maximal run of equal consecutive entries replaced by one occurrence.
RECURSIVE CollapseRuns(_)
CollapseRuns(q) ==
    IF Len(q) <= 1 THEN q
    ELSE LET r == CollapseRuns(SubSeq(q, 1, Len(q) - 1)) IN
         IF q[Len(q)] = q[Len(q) - 1] THEN r ELSE Append(r, q[Len(q)])

RECURSIVE DeleteAll(_, _)
DeleteAll(q, b) ==
    IF Len(q) = 0 THEN <<>>
    ELSE LET r == DeleteAll(SubSeq(q, 1, Len(q) - 1), b) IN
         IF q[Len(q)] = b THEN r ELSE Append(r, q[Len(q)])

\* a is a subsequence of b.
RECURSIVE IsSubsequence(_, _)
IsSubsequence(a, b) ==
    IF Len(a) = 0 THEN TRUE
    ELSE IF Len(b) = 0 THEN FALSE
    ELSE IF a[1] = b[1] THEN IsSubsequence(Tail(a), Tail(b))
    ELSE IsSubsequence(a, Tail(b))

\* C17: for every sequence of indices in 0..blank, the indices the decoder
\* emits are the sequence with every maximal run of equal consecutive indices
\* (runs of blanks included) replaced by one occurrence and every blank then
\* deleted; the output holds no blank and is a subsequence of the input.
C17_TwoStepCollapse ==
    (FramesConsumed /\ IndicesInRange) =>
        /\ decoded_prediction = DeleteAll(CollapseRuns(CurrentPrediction), blank_id)
        /\ \A k \in DOMAIN decoded_prediction : decoded_prediction[k] /= blank_id
        /\ IsSubsequence(decoded_prediction, CurrentPrediction)

C17_Witness ==
    /\ FramesConsumed
    /\ blank_id = MaxVocab
    /\ CurrentPrediction = <<1, 1, blank_id, 1>>
    /\ decoded_prediction = <<1, 1>>

(***************************************************************************)
(* Masking as a function.                                                  *)
(***************************************************************************)
MaskedCall == conv_pos >= 1 /\ (LastLayer.kind = "unit" \/ LastLayer.use_mask)

\* C18: masking is idempotent: the tensor the masking step of MaskConv1d
\* made of (x, x_len) is left as it is by the masking step applied to it
\* again with the same x_len.
C18_MaskIdempotent ==
    MaskedCall => ApplyMask(x_masked, len_in) = x_masked

C18_Witness ==
    /\ MaskedCall
    /\ x_masked /= x_in
    /\ \E i \in DOMAIN x_masked : \E t \in DOMAIN x_masked[i] : x_masked[i][t] /= 0

(***************************************************************************)
(* Effects on the caller's arrays.                                         *)
(***************************************************************************)
\* C19: neither the extractor nor a masked convolution modifies what its
\* caller passed in: whatever the dither, every waveform holds the same
\* samples while and after the extractor runs, and the tensor passed to a
\* masked convolution holds the same values after the call.
C19_InputsUntouched ==
    /\ \A i \in DOMAIN xs_held : xs_held[i] = "samples"
    /\ x0_held = x0

(***************************************************************************)
(* Two passes on one model.                                                *)
(***************************************************************************)
\* C20: no forward pass writes the model, every pass enters its first unit
\* with an empty history whatever the other pass has done, and each of two
\* passes interleaved in any order returns the (logits, lengths) that
\* Jasper.__call__ returns for its arguments when run alone.
C20_PassesIndependent ==
    /\ [][net' = net]_vars
    /\ [](\A q \in DOMAIN passes :
            /\ (passes[q].pc = "features" /\ passes[q].stage = 1) =>
                 (~passes[q].len.tuple /\ passes[q].len.y = <<>>
                    /\ passes[q].len.y_len = <<>>)
            /\ (passes[q].pc = "features" /\ passes[q].stage = 2 /\ net.use_dr) =>
                 (Len(passes[q].len.y) = 1 /\ passes[q].len.y[1].id = 1)
            /\ passes[q].pc = "done" =>
                 LET a == JasperCall(net, passes[q].arg) IN
                 /\ a.ok
                 /\ passes[q].x.shape = a.x
                 /\ passes[q].len.x_len = a.x_len)

\* One pass has returned while the other, on different arguments, holds a
\* history of several entries.
C20_Witness ==
    /\ passes /= <<>>
    /\ net.use_dr
    /\ passes[1].pc = "done"
    /\ passes[2].pc = "features"
    /\ passes[2].len.tuple
    /\ Len(passes[2].len.y) = 3
    /\ passes[1].arg /= passes[2].arg

\* The stages of a forward pass on model n in the order of the claim:
\* extractor (when from_audio), init block, units 1..N, final block, output.
StagesInOrder(n) ==
    (IF n.from_audio THEN <<Stage("preprocessor", 0)>> ELSE <<>>)
    \o <<Stage("init_block", 0)>>
    \o [i \in 1..Len(n.units) |-> Stage("unit", i)]
    \o <<Stage("final_block", 0), Stage("output", 0)>>

IsPrefix(s, t) == Len(s) <= Len(t) /\ \A i \in 1..Len(s) : s[i] = t[i]

\* The stages called after the extractor.
StagesAfterExtractor ==
    Len(pipe_trace) - (IF net.from_audio THEN 1 ELSE 0)

\* C21: in every forward pass the stages called so far are the first stages
\* of the sequence extractor (only when from_audio), init block, unit1..unitN,
\* final block, output, each once; a pass that returns has called all of
\* them; the tensor in hand is the one the latest stage produced, and the
\* length state is the tuple exactly after a dense unit; the final block has
\* called conv1 then conv2; and in dense mode the history unit k reads already
\* holds, as its last entry, what the stage before it produced.
C21_StageOrder ==
    /\ pipe_pc \in {"start", "features", "output", "return", "done", "error"} =>
          IsPrefix(pipe_trace, StagesInOrder(net))
    /\ PipeRunning =>
        /\ pipe_pc \in {"return", "done"} => pipe_trace = StagesInOrder(net)
        /\ pipe_pc /= "start" => pipe_x.id = StagesAfterExtractor
        /\ (pipe_pc = "features" /\ pipe_trace /= <<>>) =>
              (pipe_len.tuple <=>
                 (net.use_dr /\ pipe_trace[Len(pipe_trace)].child = "unit"))
        /\ (pipe_pc = "output") =>
              /\ pipe_trace[Len(pipe_trace)] = Stage("final_block", 0)
              /\ Len(pipe_log) = Len(net.final_block)
              /\ pipe_x.shape[2] = net.final_block[Len(net.final_block)].out_channels
        /\ (pipe_pc = "features" /\ net.use_dr /\ pipe_trace /= <<>>
              /\ pipe_trace[Len(pipe_trace)].child = "unit") =>
              LET k == pipe_trace[Len(pipe_trace)].index IN
              /\ Len(pipe_sum.history) = k
              /\ pipe_sum.history[k].id = k

C21_Witness ==
    /\ pipe_pc = "done"
    /\ net.from_audio
    /\ net.use_dr
    /\ Len(net.units) = 10
    /\ Len(pipe_trace) = 14
    /\ pipe_trace[7] = Stage("unit", 5)
    /\ pipe_x.id = 13

(***************************************************************************)
(* IGCV3 claims                                                            *)
(***************************************************************************)
\* The call of _test on a model of igcv3_w1, igcv3_w3d4, igcv3_wd2 or igcv3_wd4.
TestCall ==
    /\ ig_pc /= "idle"
    /\ ig_arg = <<1, ImageChannels, TestInSize, TestInSize>>
    /\ ig_net \in {GetMobilenetv2(ws) : ws \in ExportedWidthScales}

\* C22: for igcv3_w1, igcv3_w3d4, igcv3_wd2 and igcv3_wd4 an input of shape
\* (1, 3, 224, 224) never raises and yields shape (1, 1000): the units leave a
\* 7x7 map, the 7x7 average pooling leaves 1x1, and the flatten step yields
\* one row of final_block_channels values for the one batch item.
C22_TestShape ==
    TestCall =>
        /\ ig_pc /= "error"
        /\ ig_net.init_block.stride = 2
        /\ ig_pc \in {"final_block", "final_pool"} => (ig_x[3] = 7 /\ ig_x[4] = 7)
        /\ ig_pc = "flatten" => (ig_x[3] = 1 /\ ig_x[4] = 1)
        /\ ig_pc = "fc" => ig_x = <<1, ig_net.final_block.out_channels>>
        /\ ig_pc \in {"return", "done"} => ig_x = <<1, ImageClasses>>

C22_Witness ==
    /\ TestCall
    /\ ig_net = GetMobilenetv2(3)
    /\ ig_pc = "done"
    /\ ig_pos = 32
    /\ ig_x = <<1, 1000>>

(***************************************************************************)
(* Lengths through the stages of a forward pass                            *)
(***************************************************************************)
\* The valid lengths that enter the init block: the caller's, or the
\* extractor's when from_audio.
EntryLengths ==
    IF net.from_audio
    THEN [i \in DOMAIN pipe_arg.waves |->
            ValidFrames(pipe_arg.waves[i],
                        HopLength(DefaultSampleRate, DefaultWindowStrideMs))]
    ELSE pipe_arg.x_len

CeilHalf(l) == (l + 1) \div 2

HalvedLengths == [i \in DOMAIN EntryLengths |-> CeilHalf(EntryLengths[i])]

\* C23: for every model of get_jasper and all valid lengths len >= 0, the init
\* block returns ceil(len / 2) and every later masked convolution (body
\* blocks, shortcut projections, both convolutions of the final block), hence
\* every unit and the final block, returns the length it received, so the
\* final valid length is ceil(len / 2); the shortcut and the body of a unit
\* have the same time extent, so no unit raises on its sum.
C23_LengthHalved ==
    /\ pipe_pc = "error" => pipe_stage = 0
    /\ (PipeRunning /\ pipe_stage >= 1) =>
          /\ pipe_len.x_len = HalvedLengths
          /\ \A e \in DOMAIN pipe_log :
                /\ pipe_log[e].x_len = HalvedLengths
                /\ pipe_log[e].time = pipe_x.shape[3]
          /\ \A j \in DOMAIN pipe_len.y_len : pipe_len.y_len[j] = HalvedLengths

C23_Witness ==
    /\ pipe_pc = "done"
    /\ ~net.from_audio
    /\ net.use_dr
    /\ Len(net.init_block) = 2
    /\ Len(net.units) = 10
    /\ pipe_arg.x_len = <<0, 3>>
    /\ pipe_len.x_len = <<0, 2>>
    /\ Len(pipe_log) = 3

(***************************************************************************)
(* The length state through models of N >= 0 units                         *)
(***************************************************************************)
LastStage == pipe_trace[Len(pipe_trace)]

\* C24: for every number N >= 0 of units, in dense mode the init block hands
\* the first unit a plain length vector, every unit hands on the tuple
\* (length, history of tensors, history of lengths), the final block takes
\* the lengths out of what it receives without raising, and the pass returns
\* one length per batch item; in plain mode every unit hands on a plain
\* length vector and the pass likewise returns one length per batch item.
C24_LengthPerItem ==
    (pipe_pc \in {"features", "output", "return", "done", "error"}
        /\ pipe_trace /= <<>>) =>
        /\ (pipe_pc = "features" /\ LastStage.child = "init_block") => ~pipe_len.tuple
        /\ (pipe_pc = "features" /\ LastStage.child = "unit") =>
              /\ pipe_len.tuple <=> net.use_dr
              /\ Len(pipe_len.x_len) = pipe_x.shape[1]
              /\ net.use_dr => Len(pipe_len.y) = Len(pipe_len.y_len)
        /\ ~(pipe_pc = "error" /\ LastStage.child = "final_block")
        /\ pipe_pc \in {"output", "return", "done"} =>
              /\ ~pipe_len.tuple
              /\ Len(pipe_len.x_len) = pipe_x.shape[1]

(***************************************************************************)
(* The x_len of the caller when from_audio                                 *)
(***************************************************************************)
\* The final valid lengths that the sample counts alone determine.
LengthsOfWaves(waves) ==
    [i \in DOMAIN waves |->
        CeilHalf(ValidFrames(waves[i], HopLength(DefaultSampleRate, DefaultWindowStrideMs)))]

PassEnded(q) == passes[q].pc \in {"done", "error"}

\* C25: with from_audio, two calls on the same waveforms end the same way
\* whatever x_len the caller passed: both return the same logits shape and
\* the same final valid lengths, which are computed from each waveform's
\* sample count, so items of equal sample count get equal lengths.
C25_CallerLenIgnored ==
    (passes /= <<>> /\ net.from_audio) =>
        /\ \A q1, q2 \in DOMAIN passes :
              (PassEnded(q1) /\ PassEnded(q2)
                  /\ passes[q1].arg.waves = passes[q2].arg.waves) =>
                 /\ passes[q1].pc = passes[q2].pc
                 /\ passes[q1].x = passes[q2].x
                 /\ passes[q1].len = passes[q2].len
        /\ \A q \in DOMAIN passes :
              passes[q].pc = "done" =>
                 /\ passes[q].len.x_len = LengthsOfWaves(passes[q].arg.waves)
                 /\ \A i, j \in DOMAIN passes[q].arg.waves :
                       passes[q].arg.waves[i] = passes[q].arg.waves[j] =>
                          passes[q].len.x_len[i] = passes[q].len.x_len[j]

C25_Witness ==
    /\ passes /= <<>>
    /\ net.from_audio
    /\ passes[1].pc = "done"
    /\ passes[2].pc = "done"
    /\ passes[1].arg.waves = <<2400, 2400>>
    /\ passes[2].arg.waves = <<2400, 2400>>
    /\ passes[1].arg.x_len = <<2400, 2400>>
    /\ passes[2].arg.x_len = <<0, 0>>
    /\ passes[1].len.x_len = <<8, 8>>
    /\ passes[2].len.x_len = <<8, 8>>
    /\ passes[1].x = passes[2].x

===============================================================================
